---- MODULE Spec2Model ----
(***************************************************************************)
(* Verification model of embykeeper's telechecker core:                    *)
(*   - ClientsSession: the reference-counted pool of logged-in clients     *)
(*     (tele.py), with its watchdog, clean / clean_all, shutdown and the   *)
(*     login of one identity;                                              *)
(*   - Dispatcher: the grouped update dispatcher (tele.py);                *)
(*   - Link.post: the request/response exchange with the relay bot         *)
(*     (link.py), Link.auth, Link.captcha and the wrappers ocr, visual,    *)
(*     send_log and send_msg that call it, and two calls of post in        *)
(*     progress at the same time.                                          *)
(* Each component has its own specification (SpecPool, SpecShut,           *)
(* SpecLogin, SpecDisp, SpecLink, SpecReplies, SpecAuth, SpecWrap,         *)
(* SpecCaptcha, SpecConc) over the shared variable tuple; the variables    *)
(* of the other components stay at their initial values.                   *)
(*                                                                         *)
(* Scheduling: asyncio tasks interleave at awaits only.  An action is the  *)
(* code a task runs between two suspensions.  Acquiring a free             *)
(* asyncio.Lock, putting on an unbounded asyncio.Queue and awaiting a      *)
(* finished Task do not suspend; acquiring a held lock does.               *)
(***************************************************************************)
EXTENDS Integers, Sequences, FiniteSets, TLC

(***************************************************************************)
(* Bounds of the model.                                                    *)
(***************************************************************************)
NumBorrowers == 2
\* updates put on a dispatcher's queue
MaxUpdates == 2
\* add_handler / remove_handler calls on a dispatcher
MaxRegs == 1
\* calls of Link.post
MaxCalls == 2
\* the `retries` argument of a call is 1..MaxRetries
MaxRetries == 3
\* sends / deletes that raise
MaxFaults == 1
\* messages of the relay during one call
MaxReplies == 1
\* messages of the relay during one call when replies repeat
MoreReplies == 2
\* calls of Link.auth
MaxAuths == 3
\* calls of captcha
MaxCaps == 3
\* calls of post in progress at the same time on one Session
NumPosts == 2
\* the `workers` attribute of a client: handler workers per dispatcher
MaxWorkers == 2
\* the watchdog's parameter `timeout` (seconds): an entry is evicted after
\* timeout / 10 scans at refcount <= 0
timeout == 20

(***************************************************************************)
(* Program constants.                                                      *)
(***************************************************************************)
\* counter[p] >= timeout / 10
ScanDivisor == 10
\* cache.set(cache_key, results, ttl=3600)
CacheTTL == 3600
\* asyncio.sleep(3) between two attempts
RetryDelay == 3

\* the identities (account["phone"]) of the configuration
Phones == {1, 2}
Borrowers == 1..NumBorrowers

\* the ids of the loginer tasks and of the Sessions they log in: an instance
\* creates at most one task per account (line 861)
Clients == 1..(NumBorrowers * Cardinality(Phones))

\* the handlers and the groups of a dispatcher
Handlers == {1, 2, 3}
GroupIds == {0, 1}

\* the elements of a list
Range(s) == {s[i] : i \in 1..Len(s)}

VARIABLES
    \* ---- ClientsSession (class-level state) ----
    pool,       \* cls.pool: ordered dict, a sequence of [phone, val]
    lock,       \* cls.lock holder across a suspension: "free", "wd", "cleaner"
    tasks,      \* every loginer task ever created; the index is the task id,
                \* and also the id of the Client its login returns
    stopped,    \* Clients on which client.stop() has completed
    \* ---- ClientsSession instances (borrowers) ----
    accounts,   \* self.accounts
    bpc,        \* position of the instance's user
    idx,        \* index of the account __aenter__ is at
    awaited,    \* the Task __aenter__ awaits, or awaited last, at line 850
    phones,     \* self.phones
    done,       \* self.done (asyncio.Queue), 0 stands for None
    \* ---- watchdog task ----
    wdpc, wdTodo, wdPhone,
    counter,    \* the watchdog's dict: [in] says whether the key is present
    \* ---- a task calling clean / clean_all directly ----
    clpc, clTodo, clPhone,
    blocking,   \* the pending Tasks whose _asyncio_future_blocking flag is
                \* left set (the flag of a finished Task is never read)
    seen,       \* per pooled Session, on how many scans in a row the watchdog
                \* has observed its entry at refcount <= 0 (history, counted up
                \* to Threshold)
    \* ---- Dispatcher ----
    groups,         \* self.groups: ordered dict, a sequence of [group, handlers]
    updates_queue,  \* self.updates_queue, 0 stands for None
    ready,          \* the event loop's queue of tasks ready to run: the fn()
                    \* tasks of add_handler / remove_handler and the worker
    wpc,            \* where handler_worker is: "new", "get", "filter",
                    \* "callback", "stopped"
    wrun,           \* the worker task is "running", "suspended" or "ready"
    cur,            \* the update of the worker's current (or last) pass
    snapshot,       \* the local `groups` of handler_worker (line 130)
    gi, hi,         \* the handler the pass is at: snapshot[gi].handlers[hi]
    calls,          \* the callbacks invoked for update cur: [update, handler]
    nUpdates,       \* number of updates put on the queue so far
    nRegs,          \* number of add_handler / remove_handler calls so far
    outcome,        \* what the handler call that returned in the last step
                    \* did: "match", "nomatch", "raise" of a filter, "ok",
                    \* "stop", "error" of a callback; "" after any other
                    \* step (history)
    regs,           \* the add_handler / remove_handler calls so far, each
                    \* with the number of updates enqueued before it and
                    \* whether the handler was in the group then (history)
    \* ---- Link.post ----
    now,            \* the clock, in seconds
    cache,          \* client.cache: per cmd the value and when it runs out
    lpc,            \* where post is: "idle", "send", "wait", "tdelete",
                    \* "tsleep", "fdelete", "fsleep"
    req,            \* the arguments of the call
    retry,          \* the loop variable r of `for r in range(retries)`
    messages,       \* the local list of sent messages
    future,         \* the local future
    handlers,       \* the client's registered message_handler closures
    chat,           \* the messages that exist in the chat with the relay
    after,          \* the return / raise / continue pending in `finally`
    wait_time,      \* e.seconds of the FloodWaitError caught at line 150
    ret,            \* how the last call ended
    stat,           \* what the call in progress (or the last call) has done
    nCalls,         \* number of calls of post so far
    nFaults,        \* number of sends and deletes that have raised so far
    \* ---- Link.auth, for the one user client.me.id ----
    authCache,      \* client.cache under the keys auth_{service}_{uid}
    authed,         \* authed_services[uid]: per service "None" (no key),
                    \* "True" or "False"
    apc,            \* where auth is: "idle" or "post" (awaiting post)
    areq,           \* the arguments of the call: service, log_func given
    aret,           \* what the last call returned
    obtained,       \* per service, the result auth last returned after
                    \* awaiting post, and when (history)
    nAuths,         \* number of calls of auth so far
    \* ---- Link.ocr / visual / send_log / send_msg ----
    wop,            \* the calls so far: [op, arg], arg the photo or the
                    \* message; call k is post call k
    \* ---- Link.captcha ----
    capCache,       \* client.cache under the keys captcha_{site}_{url}_...
    cpc,            \* where captcha is: "idle" or "post" (awaiting post)
    creq,           \* the site of the call and what its cache entry was
    cret,           \* the reply whose token the last call returned, or
                    \* Pending for None
    tokAt,          \* per call of post, when its reply was received from
                    \* the relay, -1 before that (history)
    nCaps,          \* number of calls of captcha so far
    \* ---- Link.post, two calls in progress on one Session ----
    ppc,            \* per call, where post is: "idle" (not called), "send",
                    \* "wait", "tsleep", "fsleep", "done"
    preq,           \* per call, its cmd and its photo
    pr,             \* per call, the loop variable r
    futures,        \* per call, the local future of its attempt
    registered,     \* the calls whose message_handler is registered
    asked,          \* the calls with a request the relay has not answered
    pret,           \* per call, what it returned
    nRep,           \* number of replies of the relay so far
    \* ---- ClientsSession.shutdown ----
    spc,            \* where shutdown is: "idle" (not called), "await" (line
                    \* 614), "drain" (line 618), "second" (lines 623-624),
                    \* "done"
    si,             \* the index of the pool value the loop is at
    swi,            \* the index of the worker task awaited at line 614
    workers,        \* per client, dispatcher.handler_worker_tasks: each
                    \* worker is in "get", "busy" in a pass, or "exited"
    nones,          \* per client, the None sentinels in its updates_queue
    cancelled,      \* the login Tasks on which cancel() took effect
    saved,          \* the clients whose storage is saved and closed
    \* ---- ClientsSession.login ----
    lgpc,           \* where login is: "idle", "start" (line 755), "sleep"
                    \* (line 795), "export" (line 823), "returned"
    attempt,        \* the iteration of `for _ in range(3)`, from 1
    hist,           \* how each attempt so far ended (history)
    eBound,         \* the local name e is bound
    session,        \* account["session"] is set
    strFile,        \* the <phone>.login file exists
    sesFile,        \* the <phone>.session file exists
    in_memory,      \* self.in_memory: "None", "True" or "False"
    client,         \* the local name client: "unbound", "new" (built, not
                    \* started) or "started"
    lres            \* how login ended: "" (it has not), "client", "None",
                    \* "cancelled" (CancelledError), "raised"

poolVars == <<pool, lock, tasks, stopped, accounts, bpc, idx,
              awaited, phones, done, wdpc, wdTodo, wdPhone, counter,
              clpc, clTodo, clPhone, blocking, seen>>

dispVars == <<groups, updates_queue, ready, wpc, wrun, cur, snapshot, gi, hi,
              calls, nUpdates, nRegs, regs, outcome>>

linkVars == <<now, cache, lpc, req, retry, messages, future, handlers, chat,
              after, wait_time, ret, stat, nCalls, nFaults>>

authVars == <<authCache, authed, apc, areq, aret, obtained, nAuths>>

wrapVars == <<wop>>
capVars == <<capCache, cpc, creq, cret, tokAt, nCaps>>
concVars == <<ppc, preq, pr, futures, registered, asked, pret, nRep>>

shutVars == <<spc, si, swi, workers, nones, cancelled, saved>>

loginVars == <<lgpc, attempt, hist, eBound, session, strFile, sesFile,
               in_memory, client, lres>>

nonPoolVars == <<dispVars, linkVars, authVars, wrapVars, capVars, concVars, shutVars, loginVars>>
nonDispVars == <<poolVars, linkVars, authVars, wrapVars, capVars, concVars, shutVars, loginVars>>
nonLinkVars == <<poolVars, dispVars, authVars, wrapVars, capVars, concVars, shutVars, loginVars>>

vars == <<poolVars, dispVars, linkVars, authVars, wrapVars, capVars, concVars, shutVars, loginVars>>

(***************************************************************************)
(* cls.pool = {} : a dict keeps insertion order.                           *)
(***************************************************************************)
PoolKeys(pl) == [i \in 1..Len(pl) |-> pl[i].phone]

PoolHas(pl, p) == \E i \in 1..Len(pl) : pl[i].phone = p

PoolGet(pl, p) == pl[CHOOSE i \in 1..Len(pl) : pl[i].phone = p].val

PoolSet(pl, p, v) ==
    IF PoolHas(pl, p)
    THEN [i \in 1..Len(pl) |-> IF pl[i].phone = p THEN [phone |-> p, val |-> v] ELSE pl[i]]
    ELSE Append(pl, [phone |-> p, val |-> v])

PoolPop(pl, p) == SelectSeq(pl, LAMBDA e : e.phone # p)

IsTask(v) == v.kind = "task"
IsEntry(v) == v.kind = "entry"
TaskVal(t) == [kind |-> "task", id |-> t]
EntryVal(c, r) == [kind |-> "entry", client |-> c, ref |-> r]

\* The account lists an instance is constructed with: a non-empty set of
\* identities, in ascending order.
AccountLists ==
    {s \in UNION {[1..n -> Phones] : n \in 1..Cardinality(Phones)} :
        \A i, j \in 1..Len(s) : i < j => s[i] < s[j]}

\* Instances are interchangeable: only one order of their account lists is drawn.
RECURSIVE ListRank(_)
ListRank(s) == IF s = <<>> THEN 0 ELSE 2 ^ Head(s) + ListRank(Tail(s))

InitPool ==
    /\ pool = <<>>
    /\ lock = "free"
    /\ tasks = <<>>
    /\ stopped = {}
    /\ accounts \in [Borrowers -> AccountLists]
    /\ \A b \in Borrowers : b + 1 \in Borrowers =>
            ListRank(accounts[b]) <= ListRank(accounts[b + 1])
    /\ bpc = [b \in Borrowers |-> "enter"]
    /\ idx = [b \in Borrowers |-> 1]
    /\ awaited = [b \in Borrowers |-> 0]
    /\ phones = [b \in Borrowers |-> <<>>]
    /\ done = [b \in Borrowers |-> <<>>]
    /\ wdpc = "sleep"
    /\ wdTodo = <<>>
    /\ wdPhone = 0
    /\ counter = [p \in Phones |-> [in |-> FALSE, n |-> 0]]
    /\ clpc = "idle"
    /\ clTodo = <<>>
    /\ clPhone = 0
    /\ blocking = {}
    /\ seen = [c \in Clients |-> 0]

(***************************************************************************)
(* ClientsSession.__aenter__ (lines 840-867).  The state the loop works on *)
(* is threaded through as st = [pool, tasks, phones, done].                *)
(***************************************************************************)
Finished(ts, t) == ts[t].st \in {"done", "failed"}

\* the reference is handed out and not counted
CheckoutNoCount(a, st) ==
    LET v == PoolGet(st.pool, a) IN
    [st EXCEPT !.phones = Append(@, a),
               !.done = Append(@, v.client)]

\* lines 854-859: the entry exists, take one more reference
Checkout(a, st) ==
    LET v == PoolGet(st.pool, a) IN
    [st EXCEPT !.pool = PoolSet(st.pool, a, EntryVal(v.client, v.ref + 1)),
               !.phones = Append(@, a),
               !.done = Append(@, v.client)]

\* line 861: self.pool[phone] = asyncio.create_task(self.loginer(a))
StartLoginNoPlaceholder(b, a, st) ==
    [st EXCEPT !.tasks = Append(@, [phone |-> a, owner |-> b, st |-> "login"])]

\* no login is started
StartLoginDeferred(b, a, st) == st

StartLogin(b, a, st) ==
    [st EXCEPT !.tasks = Append(@, [phone |-> a, owner |-> b, st |-> "login"]),
               !.pool = PoolSet(st.pool, a, TaskVal(Len(st.tasks) + 1))]

\* the for loop from account i on, up to the first suspension or the return
RECURSIVE EnterRun(_, _, _)
EnterRun(b, i, st) ==
    IF i > Len(accounts[b])
    THEN [st |-> st, idx |-> i, pc |-> "entered", awaited |-> awaited[b]]
    ELSE LET a == accounts[b][i] IN
         IF ~PoolHas(st.pool, a) THEN EnterRun(b, i + 1, StartLogin(b, a, st))
         ELSE IF IsTask(PoolGet(st.pool, a))
         THEN IF Finished(st.tasks, PoolGet(st.pool, a).id)
              THEN \* lines 850-853: the await returns at once, the entry
                   \* is still the Task: continue
                   EnterRun(b, i + 1, st)
              ELSE IF PoolGet(st.pool, a).id \in blocking
              THEN \* line 850: awaiting a pending Task whose flag is set
                   \* raises RuntimeError out of __aenter__
                   [st |-> st, idx |-> i, pc |-> "error", awaited |-> awaited[b]]
              ELSE \* lines 849-850: release the lock, await the placeholder
                   [st |-> st, idx |-> i, pc |-> "await_task",
                    awaited |-> PoolGet(st.pool, a).id]
         ELSE EnterRun(b, i + 1, Checkout(a, st))

\* lines 851-859 after the awaited Task has finished
ResumeRun(b, i, st) ==
    LET a == accounts[b][i] IN
    IF ~PoolHas(st.pool, a)
    THEN \* line 852 raises KeyError out of __aenter__
         [st |-> st, idx |-> i, pc |-> "error", awaited |-> awaited[b]]
    ELSE IF IsTask(PoolGet(st.pool, a)) THEN EnterRun(b, i + 1, st)
    ELSE EnterRun(b, i + 1, Checkout(a, st))

BorrowerState(b) ==
    [pool |-> pool, tasks |-> tasks, phones |-> phones[b], done |-> done[b]]

SetBorrower(b, r) ==
    /\ pool' = r.st.pool
    /\ tasks' = r.st.tasks
    /\ phones' = [phones EXCEPT ![b] = r.st.phones]
    /\ done' = [done EXCEPT ![b] = r.st.done]
    /\ idx' = [idx EXCEPT ![b] = r.idx]
    /\ bpc' = [bpc EXCEPT ![b] = r.pc]
    /\ awaited' = [awaited EXCEPT ![b] = r.awaited]

Enter(b) ==
    /\ bpc[b] = "enter"
    /\ lock = "free"
    /\ SetBorrower(b, EnterRun(b, idx[b], BorrowerState(b)))
    /\ UNCHANGED <<nonPoolVars, blocking, seen>>
    /\ UNCHANGED <<lock, stopped, accounts, wdpc, wdTodo, wdPhone, counter,
                   clpc, clTodo, clPhone>>

EnterResume(b) ==
    /\ bpc[b] = "await_task"
    /\ Finished(tasks, awaited[b])
    /\ lock = "free"
    /\ SetBorrower(b, ResumeRun(b, idx[b], BorrowerState(b)))
    /\ UNCHANGED <<nonPoolVars, blocking, seen>>
    /\ UNCHANGED <<lock, stopped, accounts, wdpc, wdTodo, wdPhone, counter,
                   clpc, clTodo, clPhone>>

(***************************************************************************)
(* ClientsSession.loginer (lines 828-838).  login() is the external        *)
(* authentication; it returns a Client or None.                            *)
(***************************************************************************)
\* lines 831-836, under the lock
Commit(t) ==
    /\ pool' = PoolSet(pool, tasks[t].phone, EntryVal(t, 1))
    /\ phones' = [phones EXCEPT ![tasks[t].owner] = Append(@, tasks[t].phone)]
    /\ done' = [done EXCEPT ![tasks[t].owner] = Append(@, t)]
    /\ tasks' = [tasks EXCEPT ![t].st = "done"]

LoginReturns(t, ok) ==
    /\ tasks[t].st = "login"
    /\ IF ~ok
       THEN \* line 838: await self.done.put(None)
            /\ tasks' = [tasks EXCEPT ![t].st = "failed"]
            /\ done' = [done EXCEPT ![tasks[t].owner] = Append(@, 0)]
            /\ UNCHANGED <<pool, phones>>
       ELSE IF lock = "free"
       THEN Commit(t)
       ELSE \* line 831 waits for the lock
            /\ tasks' = [tasks EXCEPT ![t].st = "commit"]
            /\ UNCHANGED <<pool, phones, done>>
    /\ blocking' = IF Finished(tasks', t) THEN blocking \ {t} ELSE blocking
    /\ UNCHANGED <<nonPoolVars, seen>>
    /\ UNCHANGED <<lock, stopped, accounts, bpc, idx, awaited,
                   wdpc, wdTodo, wdPhone, counter, clpc, clTodo, clPhone>>

LoginerCommit(t) ==
    /\ tasks[t].st = "commit"
    /\ lock = "free"
    /\ Commit(t)
    /\ blocking' = blocking \ {t}
    /\ UNCHANGED <<nonPoolVars, seen>>
    /\ UNCHANGED <<lock, stopped, accounts, bpc, idx, awaited, wdpc, wdTodo,
                   wdPhone, counter, clpc, clTodo, clPhone>>

(***************************************************************************)
(* ClientsSession.__aexit__ (lines 878-886).                               *)
(***************************************************************************)
RECURSIVE ExitRunDestroy(_, _)
ExitRunDestroy(phs, pl) ==
    IF phs = <<>> THEN pl
    ELSE LET p == Head(phs) IN
         IF ~PoolHas(pl, p) THEN ExitRunDestroy(Tail(phs), pl)
         ELSE LET v == PoolGet(pl, p) IN
              IF IsTask(v) THEN pl
              ELSE IF v.ref - 1 = 0 THEN ExitRunDestroy(Tail(phs), PoolPop(pl, p))
              ELSE ExitRunDestroy(Tail(phs), PoolSet(pl, p, EntryVal(v.client, v.ref - 1)))

RECURSIVE ExitRun(_, _)
ExitRun(phs, pl) ==
    IF phs = <<>> THEN pl
    ELSE LET p == Head(phs) IN
         IF ~PoolHas(pl, p) THEN ExitRun(Tail(phs), pl)
         ELSE LET v == PoolGet(pl, p) IN
              IF IsTask(v)
              THEN \* client, ref = entry raises out of __aexit__
                   pl
              ELSE ExitRun(Tail(phs), PoolSet(pl, p, EntryVal(v.client, v.ref - 1)))

Exit(b) ==
    /\ bpc[b] = "entered"
    /\ lock = "free"
    /\ pool' = ExitRun(phones[b], pool)
    /\ bpc' = [bpc EXCEPT ![b] = "exited"]
    /\ awaited' = [awaited EXCEPT ![b] = 0]
    /\ UNCHANGED <<nonPoolVars, blocking, seen>>
    /\ UNCHANGED <<lock, tasks, stopped, accounts, idx, phones, done,
                   wdpc, wdTodo, wdPhone, counter, clpc, clTodo, clPhone>>

(***************************************************************************)
(* ClientsSession.clean (lines 583-596).                                   *)
(***************************************************************************)
\* lines 586-593: the entry is a (client, ref) tuple and `not ref`
CleanRemovableAnyRef(pl, p) == PoolHas(pl, p) /\ IsEntry(PoolGet(pl, p))

CleanRemovable(pl, p) ==
    /\ PoolHas(pl, p)
    /\ IsEntry(PoolGet(pl, p))
    /\ PoolGet(pl, p).ref = 0

\* lines 589-592: `client, ref = entry` with a Task as entry.  A Task is
\* iterable (Future.__iter__ is Future.__await__): unpacking a pending Task
\* sets its _asyncio_future_blocking flag on the first step and raises
\* RuntimeError on the second; unpacking a finished Task raises ValueError
\* (the iteration ends at once).  `except TypeError` catches neither.
UnpackRaises(pl, p) == PoolHas(pl, p) /\ IsTask(PoolGet(pl, p))

\* the flags after clean(p) has looked at the entry of p
Unpacked(bl, ts, pl, p) ==
    IF UnpackRaises(pl, p) /\ ~Finished(ts, PoolGet(pl, p).id)
    THEN bl \cup {PoolGet(pl, p).id}
    ELSE bl

(***************************************************************************)
(* ClientsSession.watchdog (lines 559-581): the scan of list(cls.pool)     *)
(* from `todo` on, up to the first suspension inside a clean() it calls:   *)
(* on the lock when it is held ("clean"), else on client.stop() ("stop").  *)
(***************************************************************************)
\* the number of scans after which the entry is cleaned
Threshold == (timeout + ScanDivisor - 1) \div ScanDivisor

\* one scan early
AtThresholdEarly(n) == (n + 1) * ScanDivisor >= timeout

\* line 571: counter[p] >= timeout / 10
AtThreshold(n) == n * ScanDivisor >= timeout

\* the scans in a row that have observed each Session at refcount <= 0, after
\* a scan has gone over the keys `scanned` of the pool pl
Observe(sn, pl, scanned) ==
    [c \in Clients |->
        IF \E i \in 1..Len(scanned) :
              /\ PoolHas(pl, scanned[i])
              /\ IsEntry(PoolGet(pl, scanned[i]))
              /\ PoolGet(pl, scanned[i]).client = c
        THEN LET p == tasks[c].phone IN
             IF PoolGet(pl, p).ref <= 0
             THEN IF sn[c] < Threshold THEN sn[c] + 1 ELSE sn[c]
             ELSE 0
        ELSE sn[c]]

\* the keys a scan of `todo` has gone over when `rest` is left
Scanned(todo, rest) == SubSeq(todo, 1, Len(todo) - Len(rest))

\* line 568: if cls.pool[p][1] <= 0
IdleStrict(ref) == ref < 0

Idle(ref) == ref <= 0

RECURSIVE ScanRun(_, _, _, _)
ScanRun(todo, ctr, pl, lockFree) ==
    IF todo = <<>> THEN [ctr |-> ctr, todo |-> <<>>, phone |-> 0, pc |-> "sleep"]
    ELSE LET p == Head(todo)
             rest == Tail(todo)
         IN  IF ~PoolHas(pl, p) THEN ScanRun(rest, ctr, pl, lockFree)          \* KeyError
             ELSE IF IsTask(PoolGet(pl, p)) THEN ScanRun(rest, ctr, pl, lockFree) \* TypeError
             ELSE IF Idle(PoolGet(pl, p).ref)
             THEN IF ctr[p].in
                  THEN IF AtThreshold(ctr[p].n + 1)
                       THEN LET c0 == [ctr EXCEPT ![p].n = 0] IN
                            IF ~lockFree
                            THEN [ctr |-> c0, todo |-> rest, phone |-> p, pc |-> "clean"]
                            ELSE IF CleanRemovable(pl, p)
                            THEN [ctr |-> c0, todo |-> rest, phone |-> p, pc |-> "stop"]
                            ELSE ScanRun(rest, c0, pl, lockFree)
                       ELSE ScanRun(rest, [ctr EXCEPT ![p].n = @ + 1], pl, lockFree)
                  ELSE ScanRun(rest, [ctr EXCEPT ![p] = [in |-> TRUE, n |-> 1]], pl, lockFree)
             ELSE ScanRun(rest, [ctr EXCEPT ![p] = [in |-> FALSE, n |-> 0]], pl, lockFree)

SetWatchdog(r) ==
    /\ counter' = r.ctr
    /\ wdTodo' = r.todo
    /\ wdPhone' = r.phone
    /\ wdpc' = r.pc
    /\ lock' = IF r.pc = "stop" THEN "wd" ELSE lock

\* asyncio.sleep(10) is over: a scan starts
WdScan ==
    /\ wdpc = "sleep"
    /\ LET r == ScanRun(PoolKeys(pool), counter, pool, lock = "free") IN
       /\ SetWatchdog(r)
       /\ seen' = Observe(seen, pool, Scanned(PoolKeys(pool), r.todo))
    /\ UNCHANGED <<nonPoolVars, blocking>>
    /\ UNCHANGED <<pool, tasks, stopped, accounts, bpc, idx,
                   awaited, phones, done, clpc, clTodo, clPhone>>

\* clean(p) gets the lock it waited for; the exception of an unpacked Task
\* leaves clean, the `except (TypeError, KeyError)` of line 578 and the
\* `except asyncio.CancelledError` of line 580: the watchdog task ends
WdCleanLock ==
    /\ wdpc = "clean"
    /\ lock = "free"
    /\ blocking' = Unpacked(blocking, tasks, pool, wdPhone)
    /\ IF CleanRemovable(pool, wdPhone)
       THEN /\ lock' = "wd"
            /\ wdpc' = "stop"
            /\ UNCHANGED <<counter, wdTodo, wdPhone, seen>>
       ELSE IF UnpackRaises(pool, wdPhone)
       THEN /\ wdpc' = "dead"
            /\ wdTodo' = <<>>
            /\ UNCHANGED <<lock, counter, wdPhone, seen>>
       ELSE LET r == ScanRun(wdTodo, counter, pool, TRUE) IN
            /\ SetWatchdog(r)
            /\ seen' = Observe(seen, pool, Scanned(wdTodo, r.todo))
    /\ UNCHANGED nonPoolVars
    /\ UNCHANGED <<pool, tasks, stopped, accounts, bpc, idx,
                   awaited, phones, done, clpc, clTodo, clPhone>>

\* lines 595-596: client.stop() has returned, the entry is popped, the lock
\* released, and the scan goes on
WdCleanStop ==
    /\ wdpc = "stop"
    /\ stopped' = stopped \cup {PoolGet(pool, wdPhone).client}
    /\ pool' = PoolPop(pool, wdPhone)
    /\ LET r == ScanRun(wdTodo, counter, PoolPop(pool, wdPhone), TRUE) IN
       /\ counter' = r.ctr
       /\ wdTodo' = r.todo
       /\ wdPhone' = r.phone
       /\ wdpc' = r.pc
       /\ lock' = IF r.pc = "stop" THEN "wd" ELSE "free"
       /\ seen' = Observe([seen EXCEPT ![PoolGet(pool, wdPhone).client] = 0],
                          PoolPop(pool, wdPhone), Scanned(wdTodo, r.todo))
    /\ UNCHANGED <<nonPoolVars, blocking>>
    /\ UNCHANGED <<tasks, accounts, bpc, idx, awaited, phones, done,
                   clpc, clTodo, clPhone>>

(***************************************************************************)
(* A task that calls clean(phone) or clean_all() (lines 598-601).          *)
(***************************************************************************)
RECURSIVE CleanRun(_, _, _)
CleanRun(todo, pl, lockFree) ==
    IF todo = <<>> THEN [todo |-> <<>>, phone |-> 0, pc |-> "idle"]
    ELSE IF ~lockFree THEN [todo |-> Tail(todo), phone |-> Head(todo), pc |-> "clean"]
    ELSE IF UnpackRaises(pl, Head(todo))
    THEN \* the exception leaves clean, and the loop of clean_all
         [todo |-> <<>>, phone |-> 0, pc |-> "raised", hit |-> Head(todo)]
    ELSE IF CleanRemovable(pl, Head(todo))
    THEN [todo |-> Tail(todo), phone |-> Head(todo), pc |-> "stop"]
    ELSE CleanRun(Tail(todo), pl, lockFree)

SetCleaner(r) ==
    /\ clTodo' = r.todo
    /\ clPhone' = r.phone
    /\ clpc' = r.pc
    /\ blocking' = IF r.pc = "raised"
                   THEN Unpacked(blocking, tasks, pool, r.hit)
                   ELSE blocking

CallClean(p) ==
    /\ clpc \in {"idle", "raised"}
    /\ LET r == CleanRun(<<p>>, pool, lock = "free") IN
       /\ SetCleaner(r)
       /\ lock' = IF r.pc = "stop" THEN "cleaner" ELSE lock
    /\ UNCHANGED <<nonPoolVars, seen>>
    /\ UNCHANGED <<pool, tasks, stopped, accounts, bpc, idx,
                   awaited, phones, done, wdpc, wdTodo, wdPhone, counter>>

\* clean_all: for phone in list(cls.pool): await cls.clean(phone)
CallCleanAll ==
    /\ clpc \in {"idle", "raised"}
    /\ LET r == CleanRun(PoolKeys(pool), pool, lock = "free") IN
       /\ SetCleaner(r)
       /\ lock' = IF r.pc = "stop" THEN "cleaner" ELSE lock
    /\ UNCHANGED <<nonPoolVars, seen>>
    /\ UNCHANGED <<pool, tasks, stopped, accounts, bpc, idx,
                   awaited, phones, done, wdpc, wdTodo, wdPhone, counter>>

ClCleanLock ==
    /\ clpc = "clean"
    /\ lock = "free"
    /\ LET r == CleanRun(<<clPhone>> \o clTodo, pool, TRUE) IN
       /\ SetCleaner(r)
       /\ lock' = IF r.pc = "stop" THEN "cleaner" ELSE lock
    /\ UNCHANGED <<nonPoolVars, seen>>
    /\ UNCHANGED <<pool, tasks, stopped, accounts, bpc, idx,
                   awaited, phones, done, wdpc, wdTodo, wdPhone, counter>>

ClCleanStop ==
    /\ clpc = "stop"
    /\ stopped' = stopped \cup {PoolGet(pool, clPhone).client}
    /\ pool' = PoolPop(pool, clPhone)
    /\ LET r == CleanRun(clTodo, PoolPop(pool, clPhone), TRUE) IN
       /\ SetCleaner(r)
       /\ lock' = IF r.pc = "stop" THEN "cleaner" ELSE "free"
    /\ seen' = [seen EXCEPT ![PoolGet(pool, clPhone).client] = 0]
    /\ UNCHANGED nonPoolVars
    /\ UNCHANGED <<tasks, accounts, bpc, idx, awaited, phones, done,
                   wdpc, wdTodo, wdPhone, counter>>

NextPool ==
    \/ \E b \in Borrowers : Enter(b)
    \/ \E b \in Borrowers : EnterResume(b)
    \/ \E t \in 1..Len(tasks), ok \in BOOLEAN : LoginReturns(t, ok)
    \/ \E t \in 1..Len(tasks) : LoginerCommit(t)
    \/ \E b \in Borrowers : Exit(b)
    \/ WdScan
    \/ WdCleanStop

\* the pool with tasks that call clean and clean_all besides the watchdog;
\* only then can the watchdog's clean find the lock held (WdCleanLock)
NextPoolClean ==
    \/ NextPool
    \/ WdCleanLock
    \/ \E p \in Phones : CallClean(p)
    \/ CallCleanAll
    \/ ClCleanLock
    \/ ClCleanStop

(***************************************************************************)
(* Dispatcher (tele.py lines 83-175).                                      *)
(*                                                                         *)
(* The worker task runs from one suspension to the next in one action.     *)
(* updates_queue.get() on a non-empty queue and `async with self.mutex`    *)
(* on a free mutex do not suspend, and no task suspends while it holds     *)
(* the mutex, so the mutex is free whenever a task asks for it and needs   *)
(* no variable.  The awaits of handler.filter and handler.callback run     *)
(* inside the worker task until they suspend (wrun = "suspended"); a       *)
(* suspended worker is resumed through the loop's ready queue, behind the  *)
(* fn() tasks created before it became ready.  start() launches            *)
(* getattr(client, 'workers', 1) workers and Client sets no `workers`:     *)
(* there is one worker.                                                    *)
(***************************************************************************)
\* the worker's entry of the ready queue
WorkerItem == [kind |-> "worker"]

\* the task add_handler / remove_handler creates; pass is the update whose
\* callback was running when it was created, 0 when no callback was running
FnItem(o, h, g, u) == [kind |-> "fn", op |-> o, handler |-> h, group |-> g, pass |-> u]

\* isinstance(handler, events.NewMessage.Event) / isinstance(handler, events.Raw)
HandlerKind(h) == CASE h = 1 -> "event" [] h = 2 -> "raw" [] OTHER -> "other"

HasGroup(gs, g) == \E i \in 1..Len(gs) : gs[i].group = g

\* the groups stay in the order of their insertion
SortGroupsNone(gs) == gs

\* OrderedDict(sorted(self.groups.items()))
SortGroups(gs) == SortSeq(gs, LAMBDA a, b : a.group < b.group)

\* list.remove(handler): the first occurrence
RemoveFirst(s, h) ==
    LET k == CHOOSE i \in 1..Len(s) : s[i] = h /\ \A j \in 1..(i - 1) : s[j] # h
    IN  [i \in 1..(Len(s) - 1) |-> IF i < k THEN s[i] ELSE s[i + 1]]

\* self.groups[group] of a copy of the groups, empty without the group
HandlersIn(gs, g) ==
    UNION {Range(gs[i].handlers) : i \in {j \in 1..Len(gs) : gs[j].group = g}}

\* fn() of add_handler, lines 101-106
ApplyAdd(gs, h, g) ==
    LET gs1 == IF HasGroup(gs, g) THEN gs
               ELSE SortGroups(Append(gs, [group |-> g, handlers |-> <<>>]))
    IN  [i \in 1..Len(gs1) |->
            IF gs1[i].group = g
            THEN [gs1[i] EXCEPT !.handlers = Append(@, h)]
            ELSE gs1[i]]

\* fn() of remove_handler, lines 111-115: a missing group or a missing handler
\* raises ValueError in the task and leaves the groups as they are
ApplyRemove(gs, h, g) ==
    [i \in 1..Len(gs) |->
        IF gs[i].group = g /\ \E j \in 1..Len(gs[i].handlers) : gs[i].handlers[j] = h
        THEN [gs[i] EXCEPT !.handlers = RemoveFirst(@, h)]
        ELSE gs[i]]

ApplyFn(gs, it) ==
    IF it.op = "add" THEN ApplyAdd(gs, it.handler, it.group)
    ELSE ApplyRemove(gs, it.handler, it.group)

\* the registrations a dispatcher is started with: none, or every handler in
\* one group, registered in the order of the handler numbers
GroupConfigs ==
    {<<>>} \cup
    { LET add(gs, h) == ApplyAdd(gs, h, f[h])
      IN  add(add(add(<<>>, 1), 2), 3) : f \in [Handlers -> GroupIds] }

InitDisp ==
    /\ groups \in GroupConfigs
    /\ updates_queue = <<>>
    /\ ready = <<>>
    /\ wpc = "new"
    /\ wrun = "suspended"
    /\ cur = 0
    /\ snapshot = <<>>
    /\ gi = 0
    /\ hi = 0
    /\ calls = <<>>
    /\ nUpdates = 0
    /\ nRegs = 0
    /\ regs = <<>>
    /\ outcome = ""

\* the components of the other specifications at rest
DispQuiet ==
    /\ groups = <<>>
    /\ updates_queue = <<>>
    /\ ready = <<>>
    /\ wpc = "new"
    /\ wrun = "suspended"
    /\ cur = 0
    /\ snapshot = <<>>
    /\ gi = 0
    /\ hi = 0
    /\ calls = <<>>
    /\ nUpdates = 0
    /\ nRegs = 0
    /\ regs = <<>>
    /\ outcome = ""

PassDone == [pc |-> "done", gi |-> 0, hi |-> 0]

\* lines 132-148: from handler j of group i of the snapshot to the next
\* handler that is awaited: the filter of an Event handler, the callback of a
\* Raw handler; a handler of another type leaves args None and is skipped
RECURSIVE Scan(_, _, _)
Scan(snap, i, j) ==
    IF i > Len(snap) THEN PassDone
    ELSE IF j > Len(snap[i].handlers) THEN Scan(snap, i + 1, 1)
    ELSE LET k == HandlerKind(snap[i].handlers[j])
         IN  IF k = "event" THEN [pc |-> "filter", gi |-> i, hi |-> j]
             ELSE IF k = "raw" THEN [pc |-> "callback", gi |-> i, hi |-> j]
             ELSE Scan(snap, i, j + 1)

\* a callback that returns or raises leaves only the inner loop
AfterCallbackInnerBreak(snap, i, j) == Scan(snap, i + 1, 1)

\* lines 162-168: after the callback returned or raised an Exception, `break`
\* leaves the inner loop and, through for/else, the outer loop
AfterCallback(snap, i, j) == PassDone

\* the worker from the top of `while True` (GetRun) or inside a pass
\* (Proceed) to its next suspension; line 130 copies the groups when a pass
\* starts, and the log of invoked callbacks starts empty for its update
RECURSIVE GetRun(_, _, _, _, _)
RECURSIVE Proceed(_, _, _, _, _, _)
GetRun(q, gs, cl, u, snap) ==
    IF q = <<>>
    THEN [q |-> q, pc |-> "get", run |-> "suspended", cur |-> u,
          snapshot |-> snap, gi |-> 0, hi |-> 0, calls |-> cl]
    ELSE IF Head(q) = 0
    THEN [q |-> Tail(q), pc |-> "stopped", run |-> "suspended", cur |-> u,
          snapshot |-> snap, gi |-> 0, hi |-> 0, calls |-> cl]
    ELSE Proceed(Scan(gs, 1, 1), Tail(q), gs, <<>>, Head(q), gs)

Proceed(r, q, gs, cl, u, snap) ==
    IF r.pc = "done" THEN GetRun(q, gs, cl, u, snap)
    ELSE [q |-> q, pc |-> r.pc, run |-> "running", cur |-> u,
          snapshot |-> snap, gi |-> r.gi, hi |-> r.hi,
          calls |-> IF r.pc = "callback"
                    THEN Append(cl, [update |-> u,
                                     handler |-> snap[r.gi].handlers[r.hi]])
                    ELSE cl]

\* get() leaves the packets it returns in the queue
SetWorkerKeepQueue(r) ==
    /\ updates_queue' = updates_queue
    /\ wpc' = r.pc
    /\ wrun' = r.run
    /\ cur' = r.cur
    /\ snapshot' = r.snapshot
    /\ gi' = r.gi
    /\ hi' = r.hi
    /\ calls' = r.calls

SetWorker(r) ==
    /\ updates_queue' = r.q
    /\ wpc' = r.pc
    /\ wrun' = r.run
    /\ cur' = r.cur
    /\ snapshot' = r.snapshot
    /\ gi' = r.gi
    /\ hi' = r.hi
    /\ calls' = r.calls

\* Dispatcher.start, lines 92-98
Start ==
    /\ wpc = "new"
    /\ wpc' = "get"
    /\ wrun' = "ready"
    /\ ready' = Append(ready, WorkerItem)
    /\ UNCHANGED <<groups, updates_queue, cur, snapshot, gi, hi, calls,
                   nUpdates, nRegs, regs>>
    /\ outcome' = ""
    /\ UNCHANGED nonDispVars

\* the event loop runs the worker: at the top of the loop it takes packets
\* until it suspends; inside filter or callback the awaited coroutine goes on
WorkerWake ==
    /\ ready # <<>> /\ Head(ready) = WorkerItem
    /\ ready' = Tail(ready)
    /\ IF wpc = "get"
       THEN SetWorker(GetRun(updates_queue, groups, calls, cur, snapshot))
       ELSE /\ wrun' = "running"
            /\ UNCHANGED <<updates_queue, wpc, cur, snapshot, gi, hi, calls>>
    /\ UNCHANGED <<groups, nUpdates, nRegs, regs>>
    /\ outcome' = ""
    /\ UNCHANGED nonDispVars

\* the awaited filter or callback suspends
AwaitSuspends ==
    /\ wpc \in {"filter", "callback"} /\ wrun = "running"
    /\ wrun' = "suspended"
    /\ UNCHANGED <<groups, updates_queue, ready, wpc, cur, snapshot, gi, hi,
                   calls, nUpdates, nRegs, regs>>
    /\ outcome' = ""
    /\ UNCHANGED nonDispVars

\* what it waited for has happened
AwaitResumes ==
    /\ wpc \in {"filter", "callback"} /\ wrun = "suspended"
    /\ wrun' = "ready"
    /\ ready' = Append(ready, WorkerItem)
    /\ UNCHANGED <<groups, updates_queue, wpc, cur, snapshot, gi, hi,
                   calls, nUpdates, nRegs, regs>>
    /\ outcome' = ""
    /\ UNCHANGED nonDispVars

\* lines 136-148: handler.filter(update) returns a true value ("match"), a
\* false value ("nomatch") or raises
FilterReturns(res) ==
    /\ wpc = "filter" /\ wrun = "running"
    /\ SetWorker(
         IF res = "match"
         THEN Proceed([pc |-> "callback", gi |-> gi, hi |-> hi],
                      updates_queue, groups, calls, cur, snapshot)
         ELSE Proceed(Scan(snapshot, gi, hi + 1),
                      updates_queue, groups, calls, cur, snapshot))
    /\ UNCHANGED <<groups, ready, nUpdates, nRegs, regs>>
    /\ outcome' = res
    /\ UNCHANGED nonDispVars

\* an Exception of a callback ends the worker task
CallbackReturnsCrash(out) ==
    /\ wpc = "callback" /\ wrun = "running"
    /\ IF out = "error"
       THEN /\ wpc' = "stopped"
            /\ wrun' = "suspended"
            /\ UNCHANGED <<updates_queue, cur, snapshot, gi, hi, calls>>
       ELSE SetWorker(
              IF out = "stop"
              THEN GetRun(updates_queue, groups, calls, cur, snapshot)
              ELSE Proceed(AfterCallback(snapshot, gi, hi),
                           updates_queue, groups, calls, cur, snapshot))
    /\ UNCHANGED <<groups, ready, nUpdates, nRegs, regs>>
    /\ outcome' = out
    /\ UNCHANGED nonDispVars

\* after an Exception of a callback the pass goes on with the next handler
CallbackReturnsErrorContinues(out) ==
    /\ wpc = "callback" /\ wrun = "running"
    /\ SetWorker(
         IF out = "stop"
         THEN GetRun(updates_queue, groups, calls, cur, snapshot)
         ELSE IF out = "error"
         THEN Proceed(Scan(snapshot, gi, hi + 1),
                      updates_queue, groups, calls, cur, snapshot)
         ELSE Proceed(AfterCallback(snapshot, gi, hi),
                      updates_queue, groups, calls, cur, snapshot))
    /\ UNCHANGED <<groups, ready, nUpdates, nRegs, regs>>
    /\ outcome' = out
    /\ UNCHANGED nonDispVars

\* lines 150-170: the callback returns ("ok"), raises StopPropagation
\* ("stop") or raises another Exception ("error")
CallbackReturns(out) ==
    /\ wpc = "callback" /\ wrun = "running"
    /\ SetWorker(
         IF out = "stop"
         THEN GetRun(updates_queue, groups, calls, cur, snapshot)
         ELSE Proceed(AfterCallback(snapshot, gi, hi),
                      updates_queue, groups, calls, cur, snapshot))
    /\ UNCHANGED <<groups, ready, nUpdates, nRegs, regs>>
    /\ outcome' = out
    /\ UNCHANGED nonDispVars

\* the packet is put at the head of the queue
PutFirst(packet) ==
    /\ wrun # "running"
    /\ updates_queue' = <<packet>> \o updates_queue
    /\ IF wpc = "get" /\ wrun = "suspended"
       THEN wrun' = "ready" /\ ready' = Append(ready, WorkerItem)
       ELSE UNCHANGED <<wrun, ready>>

\* updates_queue.put_nowait(packet) by another task (lines 509-535, 611): a
\* worker suspended in get() is made ready
Put(packet) ==
    /\ wrun # "running"
    /\ updates_queue' = Append(updates_queue, packet)
    /\ IF wpc = "get" /\ wrun = "suspended"
       THEN wrun' = "ready" /\ ready' = Append(ready, WorkerItem)
       ELSE UNCHANGED <<wrun, ready>>

Enqueue ==
    /\ nUpdates < MaxUpdates
    /\ Put(nUpdates + 1)
    /\ nUpdates' = nUpdates + 1
    /\ UNCHANGED <<groups, wpc, cur, snapshot, gi, hi, calls, nRegs, regs>>
    /\ outcome' = ""
    /\ UNCHANGED nonDispVars

\* line 611: the None that stops a worker, put once
PutNone ==
    /\ wpc # "stopped"
    /\ \A i \in 1..Len(updates_queue) : updates_queue[i] # 0
    /\ Put(0)
    /\ UNCHANGED <<groups, wpc, cur, snapshot, gi, hi, calls, nUpdates, nRegs, regs>>
    /\ outcome' = ""
    /\ UNCHANGED nonDispVars

\* add_handler / remove_handler (lines 100-117) called by the running
\* callback or, while the worker does not run, by another task: the task of
\* fn() is created and returned
Register(o, h, g) ==
    /\ nRegs < MaxRegs
    /\ wrun # "running" \/ wpc = "callback"
    /\ ready' = Append(ready, FnItem(o, h, g, IF wpc = "callback" THEN cur ELSE 0))
    /\ nRegs' = nRegs + 1
    /\ regs' = Append(regs, [op |-> o, handler |-> h, group |-> g, at |-> nUpdates,
                               had |-> h \in HandlersIn(groups, g)])
    /\ UNCHANGED <<groups, updates_queue, wpc, wrun, cur, snapshot, gi, hi,
                   calls, nUpdates>>
    /\ outcome' = ""
    /\ UNCHANGED nonDispVars

\* the event loop runs a task of fn()
RunFn ==
    /\ wrun # "running"
    /\ ready # <<>> /\ Head(ready).kind = "fn"
    /\ groups' = ApplyFn(groups, Head(ready))
    /\ ready' = Tail(ready)
    /\ UNCHANGED <<updates_queue, wpc, wrun, cur, snapshot, gi, hi, calls,
                   nUpdates, nRegs, regs>>
    /\ outcome' = ""
    /\ UNCHANGED nonDispVars

NextDisp ==
    \/ Start
    \/ WorkerWake
    \/ AwaitSuspends
    \/ AwaitResumes
    \/ \E res \in {"match", "nomatch", "raise"} : FilterReturns(res)
    \/ \E out \in {"ok", "stop", "error"} : CallbackReturns(out)
    \/ Enqueue
    \/ PutNone
    \/ \E o \in {"add", "remove"}, h \in Handlers, g \in GroupIds : Register(o, h, g)
    \/ RunFn

(***************************************************************************)
(* Link.post (link.py lines 51-160) and the reply handler it registers,    *)
(* for one caller that issues its requests one after the other.            *)
(*                                                                         *)
(* client.cache is aiocache's in-memory cache: get returns the value set   *)
(* until its ttl has run out, then None.  send_message / send_file,        *)
(* Message.delete and the relay are outside the program: a send or a       *)
(* delete succeeds or raises, the relay answers or stays silent.           *)
(* NewMessage(chats=self.bot) and line 86 keep messages of other chats     *)
(* from the handler, so only messages of the relay chat are modelled.      *)
(* add_event_handler / remove_event_handler are taken to register the      *)
(* callback and to remove the registration `handler` stands for.           *)
(***************************************************************************)
\* the `timeout` arguments of the callers: the default and captcha's 240
Timeouts == {20, 240}

\* e.seconds of a FloodWaitError
FloodWaits == {5}

Cmds == {1, 2}

\* the services of auth, the photos and the messages of the wrappers, the
\* pairs (site, url) of captcha
Services == {1, 2}
Sites == {1, 2}
Photos == {1, 2}
Messages == {1, 2}

\* the cmd strings of auth and of the wrappers, with self.instance fixed:
\* f"/auth {service} {self.instance}", f"/ocr {self.instance}",
\* f"/visual {self.instance} {'/'.join(options)}" for one list of options,
\* f"/log {self.instance} {message}", f"/msg {self.instance} {message}"
AuthCmd(s) == 2 + s
OcrCmd == 5
VisualCmd == 6
LogCmd(msg) == 6 + msg
MsgCmd(msg) == 8 + msg
\* cmd = f"/captcha {self.instance} {site}" + f" {url}" (lines 222-224), for
\* the pairs (site, url) of the callers
CaptchaCmd(site) == 10 + site

\* the keys of client.cache that post uses
CacheKeys == 1..12

\* asyncio.Future(): no result yet / cancelled by wait_for on timeout
Pending == [st |-> "pending", status |-> "", msg |-> 0]
Cancelled == [st |-> "cancelled", status |-> "", msg |-> 0]
\* the toml of an accepted reply, with its "status"
Toml(s, m) == [st |-> "done", status |-> s, msg |-> m]

NoEntry == [exp |-> 0, val |-> Pending]

\* the message_handler closure of attempt k of call c
Hid(c, k) == [call |-> c, r |-> k]

\* the message sent in attempt k of call c; the n-th message of the relay
OutMsg(c, k) == [dir |-> "out", call |-> c, n |-> k]
InMsg(c, n) == [dir |-> "in", call |-> c, n |-> n]

NoStat == [sends |-> 0, waited |-> 0, sleeps |-> 0, floodSlept |-> 0,
           floodAsked |-> 0, timeouts |-> 0, floods |-> 0, faults |-> 0,
           accepted |-> 0, replies |-> 0, blocked |-> 0]

NoRet == [kind |-> "none", via |-> "", val |-> Pending]
NoAfter == [k |-> "", kind |-> "", via |-> "", val |-> Pending, seconds |-> 0]

InitLink ==
    /\ now = 0
    /\ cache = [c \in CacheKeys |-> NoEntry]
    /\ lpc = "idle"
    /\ req = [cmd |-> 0, timeout |-> 0, retries |-> 0, fail |-> FALSE, entry |-> ""]
    /\ retry = 0
    /\ messages = <<>>
    /\ future = Pending
    /\ handlers = {}
    /\ chat = {}
    /\ after = NoAfter
    /\ wait_time = 0
    /\ ret = NoRet
    /\ stat = NoStat
    /\ nCalls = 0
    /\ nFaults = 0

\* the post call never consults the cache
CacheHitNever(ch, c, t) == FALSE

\* lines 72-75: `if cached_result`: the entry is there and has not run out
CacheHit(ch, c, t) == ch[c].exp > t

\* one retry fewer
MoreRetriesOffByOne(k, n) == k + 2 < n

\* line 129: r + 1 < retries
MoreRetries(k, n) == k + 1 < n

\* `return` of a value, of None, or a LinkError leaving post
Returns(kind, via, val) ==
    [k |-> "return", kind |-> kind, via |-> via, val |-> val, seconds |-> 0]

\* lines 133-137, 140-144, 157-160: raise LinkError if fail, else return None
Fails(via) == Returns(IF req.fail THEN "LinkError" ELSE "None", via, Pending)

Continue == [NoAfter EXCEPT !.k = "continue"]

\* an exception leaving the inner try: FloodWaitError(seconds) is caught at
\* line 150, any other at line 156
Raised(e) ==
    IF e.k = "flood" THEN [NoAfter EXCEPT !.k = "flood", !.seconds = e.seconds]
    ELSE Fails("error")

\* the send is retried after a UserBlockedError
CaughtRetry(e) == IF e.k = "blocked" THEN Continue ELSE Raised(e)

\* lines 139-144: UserBlockedError is caught in the inner try and ends post;
\* any other exception leaves the inner try
Caught(e) == IF e.k = "blocked" THEN Fails("blocked") ELSE Raised(e)

Errors == {[k |-> "flood", seconds |-> s] : s \in FloodWaits} \cup {[k |-> "other", seconds |-> 0]}

\* a new attempt that registers no handler before it sends
BeginUnregistered(c, k, hs) ==
    /\ retry' = k
    /\ messages' = <<>>
    /\ future' = Pending
    /\ handlers' = hs
    /\ lpc' = "send"

\* lines 81-104: a new attempt: messages, future and the handler registered
Begin(c, k, hs) ==
    /\ retry' = k
    /\ messages' = <<>>
    /\ future' = Pending
    /\ handlers' = hs \cup {Hid(c, k)}
    /\ lpc' = "send"

\* post returns or raises: its locals are gone
Done(a, hs) ==
    /\ lpc' = "idle"
    /\ ret' = [kind |-> a.kind, via |-> a.via, val |-> a.val]
    /\ handlers' = hs
    /\ retry' = 0
    /\ messages' = <<>>
    /\ future' = Pending

\* what post does once the finally block has run, with hs registered:
\* `continue` starts the next iteration of `for r in range(retries)` or, the
\* range exhausted, falls off the loop and returns None
After(a, hs) ==
    /\ after' = NoAfter
    /\ CASE a.k = "continue" ->
                IF retry + 1 < req.retries
                THEN Begin(nCalls, retry + 1, hs) /\ UNCHANGED ret
                ELSE Done(Returns("None", "exhausted", Pending), hs)
         [] a.k = "flood" ->
                /\ lpc' = "fsleep"
                /\ handlers' = hs
                /\ UNCHANGED <<retry, messages, future, ret>>
         [] OTHER -> Done(a, hs)
    /\ wait_time' = IF a.k = "flood" THEN a.seconds ELSE 0

\* lines 146-148 entered with outcome a pending: delete_messages(messages)
\* is awaited when there are messages; gather() of nothing returns at once
\* and remove_event_handler follows
Finally(a) ==
    IF messages = <<>>
    THEN After(a, handlers \ {Hid(nCalls, retry)})
    ELSE /\ lpc' = "fdelete"
         /\ after' = a
         /\ UNCHANGED <<retry, messages, future, handlers, ret, wait_time>>

\* post(cmd, timeout=T, retries=N, fail=f), lines 71-104
CallBody(c, T, N, f) ==
    /\ lpc = "idle" /\ nCalls < MaxCalls
    /\ nCalls' = nCalls + 1
    /\ stat' = NoStat
    /\ req' = [cmd |-> c, timeout |-> T, retries |-> N, fail |-> f,
               entry |-> IF cache[c].exp > now THEN "fresh"
                         ELSE IF cache[c].exp > 0 THEN "expired" ELSE "none"]
    /\ IF CacheHit(cache, c, now)
       THEN /\ ret' = [kind |-> "value", via |-> "cached", val |-> cache[c].val]
            /\ UNCHANGED <<lpc, retry, messages, future, handlers>>
       ELSE /\ Begin(nCalls + 1, 0, handlers)
            /\ ret' = NoRet
    /\ UNCHANGED <<now, cache, chat, after, wait_time, nFaults>>

\* a caller outside Link calls post
Call(c, T, N, f) ==
    /\ CallBody(c, T, N, f)
    /\ UNCHANGED nonLinkVars

\* lines 108-116: the request is sent (send_file with a photo, send_message
\* without)
SendOk ==
    /\ lpc = "send"
    /\ messages' = Append(messages, OutMsg(nCalls, retry))
    /\ chat' = chat \cup {OutMsg(nCalls, retry)}
    /\ stat' = [stat EXCEPT !.sends = @ + 1]
    /\ lpc' = "wait"
    /\ UNCHANGED <<now, cache, req, retry, future, handlers, after, wait_time, ret,
                   nCalls>>
    /\ UNCHANGED <<nFaults, nonLinkVars>>

\* the send raises: UserBlockedError (lines 139-144), FloodWaitError or
\* another exception; the finally block runs with messages empty
SendRaises(e) ==
    /\ lpc = "send" /\ nFaults < MaxFaults
    /\ nFaults' = nFaults + 1
    /\ stat' = [stat EXCEPT !.faults = @ + 1,
                            !.floods = IF e.k = "flood" THEN @ + 1 ELSE @,
                            !.floodAsked = @ + e.seconds,
                            !.blocked = IF e.k = "blocked" THEN @ + 1 ELSE @]
    /\ Finally(Caught(e))
    /\ UNCHANGED <<now, cache, req, chat, nCalls>>
    /\ UNCHANGED nonLinkVars

\* set_result replaces the result of a future that has one
SetsAgain(mine, kind, fut) == mine /\ kind # "reject" /\ fut.st # "cancelled"

\* lines 90-97: the handler of the attempt in progress sets its future for a
\* reply it accepts; set_result on a future that has a result or was
\* cancelled raises InvalidStateError, which line 96 catches
Sets(mine, kind, fut) == mine /\ kind # "reject" /\ fut.st = "pending"

\* only an accepted reply is deleted
DeletedIfSet(hs, delOk, sets) == hs # {} /\ delOk /\ sets

\* lines 98-99: the finally block of a handler deletes the message, whatever
\* the try block did, unless the delete raises
Deleted(hs, delOk, sets) == hs # {} /\ delOk

\* the relay's message arrives during a call (a reply needs a request: one
\* has been sent) and every registered message_handler runs
\* (lines 85-99): an accepted reply (command == cmd, condition holds) sets
\* the future of its attempt unless it is set or cancelled already; then the
\* handler deletes the message, which succeeds or raises
ReplyBody(kind, delOk, max) ==
    /\ lpc # "idle" /\ stat.sends > 0 /\ stat.replies < max
    /\ delOk \/ (handlers # {} /\ nFaults < MaxFaults)
    /\ nFaults' = IF delOk THEN nFaults ELSE nFaults + 1
    /\ LET m == InMsg(nCalls, stat.replies + 1)
           mine == Hid(nCalls, retry) \in handlers
           sets == Sets(mine, kind, future)
       IN  /\ future' = IF sets THEN Toml(kind, m) ELSE future
           /\ chat' = IF Deleted(handlers, delOk, sets) THEN chat ELSE chat \cup {m}
           /\ stat' = [stat EXCEPT !.replies = @ + 1,
                                   !.accepted = IF sets THEN @ + 1 ELSE @]
    /\ UNCHANGED <<now, cache, lpc, req, retry, messages, handlers, after,
                   wait_time, ret, nCalls>>

Reply(kind, delOk) ==
    /\ ReplyBody(kind, delOk, MaxReplies)
    /\ UNCHANGED nonLinkVars

\* the relay answers one request more than once
ReplyAgain(kind, delOk) ==
    /\ ReplyBody(kind, delOk, MoreReplies)
    /\ UNCHANGED nonLinkVars

\* line 122: results and results.get("status") == "ok"
Cacheable(fut) == fut.st = "done" /\ fut.status = "ok"

\* lines 119-125: wait_for returns the future's result; a result with status
\* ok is cached for an hour; `return results` enters the finally block
GotResult ==
    /\ lpc = "wait" /\ future.st = "done"
    /\ cache' = IF Cacheable(future)
                THEN [cache EXCEPT ![req.cmd] = [exp |-> now + CacheTTL, val |-> future]]
                ELSE cache
    /\ Finally(Returns("value", "reply", future))
    /\ UNCHANGED <<now, req, chat, stat, nCalls>>
    /\ UNCHANGED <<nFaults, nonLinkVars>>

\* line 127: wait_for gives up after `timeout` seconds and cancels the future
Timeout ==
    /\ lpc = "wait" /\ future.st = "pending"
    /\ now' = now + req.timeout
    /\ stat' = [stat EXCEPT !.waited = @ + req.timeout, !.timeouts = @ + 1]
    /\ future' = Cancelled
    /\ lpc' = "tdelete"
    /\ UNCHANGED <<cache, req, retry, messages, handlers, chat, after, wait_time,
                   ret, nCalls>>
    /\ UNCHANGED <<nFaults, nonLinkVars>>

\* lines 128-137: the messages are deleted; then sleep(3) and `continue`, or
\* the last attempt's LinkError / None
TDeleteOk ==
    /\ lpc = "tdelete"
    /\ chat' = chat \ Range(messages)
    /\ IF MoreRetries(retry, req.retries)
       THEN /\ lpc' = "tsleep"
            /\ UNCHANGED <<retry, messages, future, handlers, after, wait_time, ret>>
       ELSE Finally(Fails("timeout"))
    /\ UNCHANGED <<now, cache, req, stat, nCalls>>
    /\ UNCHANGED <<nFaults, nonLinkVars>>

\* line 128 raises: delete_messages catches CancelledError only
TDeleteRaises(e) ==
    /\ lpc = "tdelete" /\ nFaults < MaxFaults
    /\ nFaults' = nFaults + 1
    /\ stat' = [stat EXCEPT !.faults = @ + 1,
                            !.floods = IF e.k = "flood" THEN @ + 1 ELSE @,
                            !.floodAsked = @ + e.seconds]
    /\ Finally(Raised(e))
    /\ UNCHANGED <<now, cache, req, chat, nCalls>>
    /\ UNCHANGED nonLinkVars

\* lines 131-132: asyncio.sleep(3), then `continue` through the finally block
TSleep ==
    /\ lpc = "tsleep"
    /\ now' = now + RetryDelay
    /\ stat' = [stat EXCEPT !.sleeps = @ + 1]
    /\ Finally(Continue)
    /\ UNCHANGED <<cache, req, chat, nCalls>>
    /\ UNCHANGED <<nFaults, nonLinkVars>>

\* lines 147-148: the messages are deleted and the handler is removed
FDeleteOk ==
    /\ lpc = "fdelete"
    /\ chat' = chat \ Range(messages)
    /\ After(after, handlers \ {Hid(nCalls, retry)})
    /\ UNCHANGED <<now, cache, req, stat, nCalls>>
    /\ UNCHANGED <<nFaults, nonLinkVars>>

\* line 147 raises: line 148 is not reached and the exception replaces the
\* outcome that was pending
FDeleteRaises(e) ==
    /\ lpc = "fdelete" /\ nFaults < MaxFaults
    /\ nFaults' = nFaults + 1
    /\ stat' = [stat EXCEPT !.faults = @ + 1,
                            !.floods = IF e.k = "flood" THEN @ + 1 ELSE @,
                            !.floodAsked = @ + e.seconds]
    /\ After(Raised(e), handlers)
    /\ UNCHANGED <<now, cache, req, chat, nCalls>>
    /\ UNCHANGED nonLinkVars

\* lines 150-154: asyncio.sleep(e.seconds), then `continue`
FSleep ==
    /\ lpc = "fsleep"
    /\ now' = now + wait_time
    /\ stat' = [stat EXCEPT !.floodSlept = @ + wait_time]
    /\ After(Continue, handlers)
    /\ UNCHANGED <<cache, req, chat, nCalls>>
    /\ UNCHANGED <<nFaults, nonLinkVars>>

\* between two calls, time passes until the next cached entry runs out
Elapse ==
    /\ lpc = "idle"
    /\ \E c \in CacheKeys :
        /\ cache[c].exp > now
        /\ \A d \in CacheKeys : cache[d].exp > now => cache[c].exp <= cache[d].exp
        /\ now' = cache[c].exp
    /\ UNCHANGED <<cache, lpc, req, retry, messages, future, handlers, chat,
                   after, wait_time, ret, stat, nCalls>>
    /\ UNCHANGED <<nFaults, nonLinkVars>>

NextReplies ==
    \/ \E c \in Cmds, T \in Timeouts, N \in 1..MaxRetries, f \in BOOLEAN : Call(c, T, N, f)
    \/ SendOk
    \/ \E e \in Errors \cup {[k |-> "blocked", seconds |-> 0]} : SendRaises(e)
    \/ \E kind \in {"ok", "notok", "reject"}, delOk \in BOOLEAN : ReplyAgain(kind, delOk)
    \/ GotResult
    \/ Timeout
    \/ TDeleteOk
    \/ \E e \in Errors : TDeleteRaises(e)
    \/ TSleep
    \/ FDeleteOk
    \/ \E e \in Errors : FDeleteRaises(e)
    \/ FSleep
    \/ Elapse

NextLink ==
    \/ \E c \in Cmds, T \in Timeouts, N \in 1..MaxRetries, f \in BOOLEAN : Call(c, T, N, f)
    \/ SendOk
    \/ \E e \in Errors \cup {[k |-> "blocked", seconds |-> 0]} : SendRaises(e)
    \/ \E kind \in {"ok", "notok", "reject"}, delOk \in BOOLEAN : Reply(kind, delOk)
    \/ GotResult
    \/ Timeout
    \/ TDeleteOk
    \/ \E e \in Errors : TDeleteRaises(e)
    \/ TSleep
    \/ FDeleteOk
    \/ \E e \in Errors : FDeleteRaises(e)
    \/ FSleep
    \/ Elapse

(***************************************************************************)
(* Link.auth (link.py lines 162-203), called by one caller at a time, so   *)
(* that authed_services_lock is always free when auth comes to it.         *)
(* client.cache holds the auth entries under keys of their own             *)
(* (auth_{service}_{uid}); _show_super_ad only writes a log line.          *)
(***************************************************************************)
\* the defaults of post's parameters timeout and retries (lines 56-57)
PostTimeout == 20
PostRetries == 3

\* str(bool)
B(x) == IF x THEN "True" ELSE "False"

NoAuthEntry == [exp |-> 0, val |-> "None"]

InitAuth ==
    /\ authCache = [s \in Services |-> NoAuthEntry]
    /\ authed = [s \in Services |-> "None"]
    /\ apc = "idle"
    /\ areq = [service |-> 0, log |-> FALSE]
    /\ aret = "None"
    /\ obtained = [s \in Services |-> [val |-> "None", at |-> 0]]
    /\ nAuths = 0

\* lines 165-168, 173, 182, 197, 202: cache.get(cache_key) / cache.set(..., ttl=3600)
AuthCacheGet(ac, s, t) == IF ac[s].exp > t THEN ac[s].val ELSE "None"

AuthCacheSet(ac, s, v, t) == [ac EXCEPT ![s] = [exp |-> t + CacheTTL, val |-> v]]

\* lines 162-190: auth(service, log_func) up to its call of post; lg says
\* whether log_func is given
AuthCall(s, lg) ==
    /\ apc = "idle" /\ lpc = "idle" /\ nAuths < MaxAuths
    /\ nAuths' = nAuths + 1
    /\ areq' = [service |-> s, log |-> lg]
    /\ IF AuthCacheGet(authCache, s, now) # "None"
       THEN /\ aret' = AuthCacheGet(authCache, s, now)
            /\ UNCHANGED <<authCache, apc, linkVars>>
       ELSE IF authed[s] # "None"
       THEN /\ authCache' = AuthCacheSet(authCache, s, authed[s], now)
            /\ aret' = authed[s]
            /\ UNCHANGED <<apc, linkVars>>
       ELSE /\ CallBody(AuthCmd(s), PostTimeout, PostRetries, lg)
            /\ apc' = "post"
            /\ UNCHANGED <<authCache, aret>>
    /\ UNCHANGED <<authed, obtained, poolVars, dispVars, wrapVars, capVars, concVars, shutVars, loginVars>>

\* lines 181-183 and 191-203: post has returned or raised.  Without
\* log_func a truthy result (a reply's toml) is cached as True and a None is
\* not recorded; with log_func a LinkError records False, anything else True
AuthReturn ==
    /\ apc = "post" /\ lpc = "idle"
    /\ LET s == areq.service
           res == IF areq.log THEN B(ret.kind # "LinkError") ELSE B(ret.kind = "value")
       IN  /\ aret' = res
           /\ authed' = IF areq.log THEN [authed EXCEPT ![s] = res] ELSE authed
           /\ authCache' = IF areq.log \/ res = "True"
                           THEN AuthCacheSet(authCache, s, res, now)
                           ELSE authCache
           /\ obtained' = [obtained EXCEPT ![s] = [val |-> res, at |-> now]]
    /\ apc' = "idle"
    /\ UNCHANGED <<areq, nAuths, linkVars, poolVars, dispVars, wrapVars, capVars, concVars, shutVars, loginVars>>

\* when the next entry of client.cache runs out, an auth entry included
Expiries == {cache[c].exp : c \in CacheKeys} \cup {authCache[s].exp : s \in Services}

\* between two calls of auth, time passes until the next entry runs out
ElapseAuth ==
    /\ lpc = "idle" /\ apc = "idle"
    /\ \E e \in Expiries :
        /\ e > now
        /\ \A d \in Expiries : d > now => e <= d
        /\ now' = e
    /\ UNCHANGED <<cache, lpc, req, retry, messages, future, handlers, chat,
                   after, wait_time, ret, stat, nCalls>>
    /\ UNCHANGED <<nFaults, nonLinkVars>>

NextAuth ==
    \/ \E s \in Services, lg \in BOOLEAN : AuthCall(s, lg)
    \/ AuthReturn
    \/ SendOk
    \/ \E e \in Errors \cup {[k |-> "blocked", seconds |-> 0]} : SendRaises(e)
    \/ \E kind \in {"ok", "notok", "reject"}, delOk \in BOOLEAN : Reply(kind, delOk)
    \/ GotResult
    \/ Timeout
    \/ TDeleteOk
    \/ \E e \in Errors : TDeleteRaises(e)
    \/ TSleep
    \/ FDeleteOk
    \/ \E e \in Errors : FDeleteRaises(e)
    \/ FSleep
    \/ ElapseAuth

(***************************************************************************)
(* Link.ocr, visual, send_log and send_msg (link.py lines 312-358): each   *)
(* builds its cmd and awaits post with the default retries and fail; what  *)
(* it returns is a function of what post returns.                          *)
(***************************************************************************)
InitWrap == wop = <<>>

WrapCmd(op, arg) ==
    CASE op = "ocr" -> OcrCmd
      [] op = "visual" -> VisualCmd
      [] op = "send_log" -> LogCmd(arg)
      [] op = "send_msg" -> MsgCmd(arg)

\* lines 318-323, 332-337, 345-348, 354-357
Wrap(op, arg) ==
    /\ CallBody(WrapCmd(op, arg), PostTimeout, PostRetries, FALSE)
    /\ wop' = Append(wop, [op |-> op, arg |-> arg])
    /\ UNCHANGED <<poolVars, dispVars, authVars, capVars, concVars, shutVars, loginVars>>

NextWrap ==
    \/ \E ph \in Photos : Wrap("ocr", ph)
    \/ \E ph \in Photos : Wrap("visual", ph)
    \/ \E msg \in Messages : Wrap("send_log", msg)
    \/ \E msg \in Messages : Wrap("send_msg", msg)
    \/ SendOk
    \/ \E e \in Errors \cup {[k |-> "blocked", seconds |-> 0]} : SendRaises(e)
    \/ \E kind \in {"ok", "notok", "reject"}, delOk \in BOOLEAN : Reply(kind, delOk)
    \/ GotResult
    \/ Timeout
    \/ TDeleteOk
    \/ \E e \in Errors : TDeleteRaises(e)
    \/ TSleep
    \/ FDeleteOk
    \/ \E e \in Errors : FDeleteRaises(e)
    \/ FSleep
    \/ Elapse

(***************************************************************************)
(* Link.captcha (link.py lines 215-229), called by one caller at a time.   *)
(* It keeps the reply of the relay under a key of its own for 300 s and    *)
(* awaits post, which keeps an "ok" reply under the key of the cmd for an  *)
(* hour.  results.get("token") is a field of the reply: the reply stands   *)
(* for its token.                                                          *)
(***************************************************************************)
\* ttl=300 of line 227
CaptchaTTL == 300

\* timeout=240 of line 225
CaptchaTimeout == 240

InitCap ==
    /\ capCache = [x \in Sites |-> NoEntry]
    /\ cpc = "idle"
    /\ creq = [site |-> 0, entry |-> ""]
    /\ cret = Pending
    /\ tokAt = [c \in 1..MaxCalls |-> -1]
    /\ nCaps = 0

\* lines 217-225: captcha(site, url) up to its call of post
CaptchaCall(x) ==
    /\ cpc = "idle" /\ lpc = "idle" /\ nCaps < MaxCaps
    /\ nCaps' = nCaps + 1
    /\ creq' = [site |-> x,
                entry |-> IF capCache[x].exp > now THEN "fresh"
                          ELSE IF capCache[x].exp > 0 THEN "expired" ELSE "none"]
    /\ IF CacheHit(capCache, x, now)
       THEN /\ cret' = capCache[x].val
            /\ UNCHANGED <<cpc, linkVars>>
       ELSE /\ nCalls < MaxCalls
            /\ CallBody(CaptchaCmd(x), CaptchaTimeout, PostRetries, FALSE)
            /\ cpc' = "post"
            /\ UNCHANGED cret
    /\ UNCHANGED <<capCache, tokAt, poolVars, dispVars, authVars, wrapVars,
                   concVars, shutVars, loginVars>>

\* lines 226-229: post has returned a reply's toml, taken from the relay or
\* from client.cache, or None
CaptchaReturn ==
    /\ cpc = "post" /\ lpc = "idle"
    /\ LET x == creq.site
           results == ret.kind = "value"
       IN  /\ capCache' = IF results
                          THEN [capCache EXCEPT ![x] =
                                   [exp |-> now + CaptchaTTL, val |-> ret.val]]
                          ELSE capCache
           /\ cret' = IF results THEN ret.val ELSE Pending
           /\ tokAt' = IF results /\ ret.via = "reply"
                       THEN [tokAt EXCEPT ![nCalls] = now]
                       ELSE tokAt
    /\ cpc' = "idle"
    /\ UNCHANGED <<creq, nCaps, linkVars, poolVars, dispVars, authVars, wrapVars,
                   concVars, shutVars, loginVars>>

\* when the next entry of client.cache runs out, a captcha entry included
CapExpiries == {cache[c].exp : c \in CacheKeys} \cup {capCache[x].exp : x \in Sites}

\* between two calls of captcha, time passes until the next entry runs out
ElapseCap ==
    /\ lpc = "idle" /\ cpc = "idle"
    /\ \E e \in CapExpiries :
        /\ e > now
        /\ \A d \in CapExpiries : d > now => e <= d
        /\ now' = e
    /\ UNCHANGED <<cache, lpc, req, retry, messages, future, handlers, chat,
                   after, wait_time, ret, stat, nCalls>>
    /\ UNCHANGED <<nFaults, nonLinkVars>>

NextCaptcha ==
    \/ \E x \in Sites : CaptchaCall(x)
    \/ CaptchaReturn
    \/ SendOk
    \/ \E e \in Errors \cup {[k |-> "blocked", seconds |-> 0]} : SendRaises(e)
    \/ \E kind \in {"ok", "notok", "reject"}, delOk \in BOOLEAN : Reply(kind, delOk)
    \/ GotResult
    \/ Timeout
    \/ TDeleteOk
    \/ \E e \in Errors : TDeleteRaises(e)
    \/ TSleep
    \/ FDeleteOk
    \/ \E e \in Errors : FDeleteRaises(e)
    \/ FSleep
    \/ ElapseCap

(***************************************************************************)
(* Link.post (lines 71-160) called by tasks that run at the same time on   *)
(* one Session, as ocr and visual are by the handlers of several chats:    *)
(* every call registers its own message_handler on the one client, and     *)
(* every registered handler is run for every message of the relay.  The    *)
(* relay's reply to a request carries the command of that request; the     *)
(* wrappers pass no condition.  The calls take place within the hour of    *)
(* the cache's ttl.  Deleting messages is left out here: delete_messages   *)
(* is taken to return.                                                     *)
(***************************************************************************)
Posts == 1..NumPosts

NoReq == [cmd |-> 0, photo |-> 0]

InitConc ==
    /\ ppc = [i \in Posts |-> "idle"]
    /\ preq = [i \in Posts |-> NoReq]
    /\ pr = [i \in Posts |-> 0]
    /\ futures = [i \in Posts |-> Pending]
    /\ registered = {}
    /\ asked = {}
    /\ pret = [i \in Posts |-> NoRet]
    /\ nRep = 0

\* what the actions of this section leave alone
ConcFrame ==
    UNCHANGED <<now, lpc, req, retry, messages, future, handlers, chat, after,
                wait_time, ret, stat, nCalls, nFaults, poolVars, dispVars,
                authVars, wrapVars, capVars, shutVars, loginVars>>

\* lines 81-104 of call i: a new future, and its handler is registered
ConcBegin(i, k) ==
    /\ pr' = [pr EXCEPT ![i] = k]
    /\ futures' = [futures EXCEPT ![i] = Pending]
    /\ registered' = registered \cup {i}
    /\ ppc' = [ppc EXCEPT ![i] = "send"]
    /\ UNCHANGED pret

\* call i returns; its handler was removed at line 148
ConcDone(i, kind, via, val) ==
    /\ ppc' = [ppc EXCEPT ![i] = "done"]
    /\ pret' = [pret EXCEPT ![i] = [kind |-> kind, via |-> via, val |-> val]]
    /\ registered' = registered \ {i}
    /\ UNCHANGED <<pr, futures>>

\* ocr(photo) / visual(photo, options) calls post(cmd, photo=photo) with the
\* default timeout, retries and fail (lines 315-323, 331-337, 71-104)
ConcCall(i, op, ph) ==
    /\ ppc[i] = "idle"
    /\ preq' = [preq EXCEPT ![i] = [cmd |-> WrapCmd(op, ph), photo |-> ph]]
    /\ IF CacheHit(cache, WrapCmd(op, ph), now)
       THEN ConcDone(i, "value", "cached", cache[WrapCmd(op, ph)].val)
       ELSE ConcBegin(i, 0)
    /\ UNCHANGED <<cache, asked, nRep>>
    /\ ConcFrame

\* lines 108-111: send_file(self.bot, photo, caption=cmd) returns: the relay
\* has the request of call i
ConcSendOk(i) ==
    /\ ppc[i] = "send"
    /\ ppc' = [ppc EXCEPT ![i] = "wait"]
    /\ asked' = asked \cup {i}
    /\ UNCHANGED <<cache, preq, pr, futures, registered, pret, nRep>>
    /\ ConcFrame

\* the send raises: the finally block removes the handler; FloodWaitError
\* is followed by the sleep of line 153, any other error returns None
ConcSendRaises(i, e) ==
    /\ ppc[i] = "send"
    /\ IF e.k = "flood"
       THEN /\ ppc' = [ppc EXCEPT ![i] = "fsleep"]
            /\ registered' = registered \ {i}
            /\ UNCHANGED <<pr, futures, pret>>
       ELSE ConcDone(i, "None", IF e.k = "blocked" THEN "blocked" ELSE "error", Pending)
    /\ UNCHANGED <<cache, preq, asked, nRep>>
    /\ ConcFrame

\* lines 85-99: the relay answers the request of call j, and the handler of
\* every call that is registered runs: it sets its future when the command
\* of the reply is its cmd, unless the future is set or cancelled already
ConcReply(j, status) ==
    /\ j \in asked
    /\ asked' = asked \ {j}
    /\ nRep' = nRep + 1
    /\ futures' = [i \in Posts |->
                      IF i \in registered /\ preq[i].cmd = preq[j].cmd
                            /\ Sets(TRUE, status, futures[i])
                      THEN Toml(status, InMsg(j, nRep + 1))
                      ELSE futures[i]]
    /\ UNCHANGED <<cache, ppc, preq, pr, registered, pret>>
    /\ ConcFrame

\* lines 119-125 and 146-148: wait_for returns the result of the future
ConcGotResult(i) ==
    /\ ppc[i] = "wait" /\ futures[i].st = "done"
    /\ cache' = IF Cacheable(futures[i])
                THEN [cache EXCEPT ![preq[i].cmd] =
                         [exp |-> now + CacheTTL, val |-> futures[i]]]
                ELSE cache
    /\ ConcDone(i, "value", "reply", futures[i])
    /\ UNCHANGED <<preq, asked, nRep>>
    /\ ConcFrame

\* lines 127-137: wait_for gives up and cancels the future; the last
\* attempt returns None
ConcTimeout(i) ==
    /\ ppc[i] = "wait" /\ futures[i].st = "pending"
    /\ IF MoreRetries(pr[i], PostRetries)
       THEN /\ ppc' = [ppc EXCEPT ![i] = "tsleep"]
            /\ futures' = [futures EXCEPT ![i] = Cancelled]
            /\ UNCHANGED <<pr, registered, pret>>
       ELSE /\ ppc' = [ppc EXCEPT ![i] = "done"]
            /\ futures' = [futures EXCEPT ![i] = Cancelled]
            /\ pret' = [pret EXCEPT ![i] = [kind |-> "None", via |-> "timeout", val |-> Pending]]
            /\ registered' = registered \ {i}
            /\ UNCHANGED pr
    /\ UNCHANGED <<cache, preq, asked, nRep>>
    /\ ConcFrame

\* lines 131-132, 148 and 153-154: the sleep returns and `continue` starts
\* the next attempt, or ends the loop and post returns None
ConcSleepEnds(i) ==
    /\ ppc[i] \in {"tsleep", "fsleep"}
    /\ IF pr[i] + 1 < PostRetries
       THEN ConcBegin(i, pr[i] + 1)
       ELSE ConcDone(i, "None", "exhausted", Pending)
    /\ UNCHANGED <<cache, preq, asked, nRep>>
    /\ ConcFrame

NextConc ==
    \/ \E i \in Posts, ph \in Photos : ConcCall(i, "ocr", ph)
    \/ \E i \in Posts, ph \in Photos : ConcCall(i, "visual", ph)
    \/ \E i \in Posts : ConcSendOk(i)
    \/ \E i \in Posts, e \in Errors \cup {[k |-> "blocked", seconds |-> 0]} :
          ConcSendRaises(i, e)
    \/ \E j \in Posts, status \in {"ok", "notok"} : ConcReply(j, status)
    \/ \E i \in Posts : ConcGotResult(i)
    \/ \E i \in Posts : ConcTimeout(i)
    \/ \E i \in Posts : ConcSleepEnds(i)

(***************************************************************************)
(* ClientsSession.shutdown (lines 603-625), run by the watchdog task when   *)
(* it is cancelled, over a pool of login Tasks and Sessions.  Each Session  *)
(* has getattr(client, 'workers', 1) handler workers, or none when its      *)
(* dispatcher was not started; a worker is waiting in get() or inside a     *)
(* pass, and a pass ends.  No update arrives and no instance acquires or    *)
(* releases while shutdown runs; a login in flight may still end before     *)
(* cancel() reaches it.  A cancelled login ends when the loop runs it.      *)
(* client.storage.save / close are taken to save and close the Session.     *)
(***************************************************************************)
ShutQuiet ==
    /\ spc = "idle"
    /\ si = 0
    /\ swi = 0
    /\ workers = [c \in Clients |-> <<>>]
    /\ nones = [c \in Clients |-> 0]
    /\ cancelled = {}
    /\ saved = {}

\* the pool shutdown finds: per identity nothing, a login Task, or a Session
PoolShapes == [Phones -> {"none", "task", "entry"}]

Pooled(f) == {p \in Phones : f[p] # "none"}

\* the pooled identities in the order of the dict
PhoneAt(f, i) == CHOOSE p \in Pooled(f) : Cardinality({q \in Pooled(f) : q < p}) = i - 1

WorkerStates == {"get", "busy"}

\* the pool's other state while nothing acquires, scans or cleans
PoolIdle ==
    /\ lock = "free"
    /\ stopped = {}
    /\ accounts = [b \in Borrowers |-> <<1>>]
    /\ bpc = [b \in Borrowers |-> "enter"]
    /\ idx = [b \in Borrowers |-> 1]
    /\ awaited = [b \in Borrowers |-> 0]
    /\ phones = [b \in Borrowers |-> <<>>]
    /\ done = [b \in Borrowers |-> <<>>]
    /\ wdpc = "sleep"
    /\ wdTodo = <<>>
    /\ wdPhone = 0
    /\ counter = [p \in Phones |-> [in |-> FALSE, n |-> 0]]
    /\ clpc = "idle"
    /\ clTodo = <<>>
    /\ clPhone = 0
    /\ blocking = {}
    /\ seen = [c \in Clients |-> 0]

InitShut ==
    /\ spc = "idle"
    /\ si = 0
    /\ swi = 0
    /\ nones = [c \in Clients |-> 0]
    /\ cancelled = {}
    /\ saved = {}
    /\ \E f \in PoolShapes :
        /\ tasks = [i \in 1..Cardinality(Pooled(f)) |->
                      [phone |-> PhoneAt(f, i), owner |-> 1,
                       st |-> IF f[PhoneAt(f, i)] = "task" THEN "login" ELSE "done"]]
        /\ pool = [i \in 1..Cardinality(Pooled(f)) |->
                     [phone |-> PhoneAt(f, i),
                      val |-> IF f[PhoneAt(f, i)] = "task" THEN TaskVal(i)
                              ELSE EntryVal(i, 0)]]
        /\ \E n \in [Clients -> 0..MaxWorkers], w \in WorkerStates :
              workers = [c \in Clients |->
                            IF c <= Cardinality(Pooled(f)) /\ f[PhoneAt(f, c)] = "entry"
                            THEN [j \in 1..n[c] |-> w]
                            ELSE <<>>]
    /\ PoolIdle

\* len(asyncio.all_tasks()) > 1: a login task or a worker has not ended
OthersAlive(ts, ws) ==
    \/ \E t \in 1..Len(ts) : ts[t].st = "login"
    \/ \E c \in Clients : \E j \in 1..Len(ws[c]) : ws[c][j] # "exited"

\* lines 620-625 from pool value i on, up to the next await of save()
RECURSIVE SecondRun(_, _, _, _)
SecondRun(i, pl, nn, cn) ==
    IF i > Len(pl) THEN [pc |-> "done", si |-> 0, swi |-> 0, nones |-> nn, cancelled |-> cn]
    ELSE IF IsEntry(pl[i].val)
    THEN [pc |-> "second", si |-> i, swi |-> 0, nones |-> nn, cancelled |-> cn]
    ELSE SecondRun(i + 1, pl, nn, cn)

\* lines 617-618: the loop sleeps while another task is alive
DrainRun(pl, ts, ws, nn, cn) ==
    IF OthersAlive(ts, ws)
    THEN [pc |-> "drain", si |-> 0, swi |-> 0, nones |-> nn, cancelled |-> cn]
    ELSE SecondRun(1, pl, nn, cn)

\* one sentinel is put for every worker of the client
PutNonesPerWorker(nn, c, ws) == [nn EXCEPT ![c] = @ + Len(ws[c])]

\* line 611: put_nowait(None), once for the client
PutNones(nn, c, ws) == [nn EXCEPT ![c] = @ + 1]

\* lines 606-616 from pool value i, worker j on (j = 0: the value is new),
\* up to the next await of a worker task that has not ended; cancel() has
\* no effect on a Task that has ended
RECURSIVE FirstRun(_, _, _, _, _, _, _)
FirstRun(i, j, pl, ts, ws, nn, cn) ==
    IF i > Len(pl) THEN DrainRun(pl, ts, ws, nn, cn)
    ELSE IF IsTask(pl[i].val)
    THEN FirstRun(i + 1, 0, pl, ts, ws, nn,
                  IF ts[pl[i].val.id].st = "login" THEN cn \cup {pl[i].val.id} ELSE cn)
    ELSE LET c == pl[i].val.client
             nn1 == IF j = 0 THEN PutNones(nn, c, ws) ELSE nn
             j1 == IF j = 0 THEN 1 ELSE j
         IN  IF j1 > Len(ws[c]) THEN FirstRun(i + 1, 0, pl, ts, ws, nn1, cn)
             ELSE IF ws[c][j1] = "exited" THEN FirstRun(i, j1 + 1, pl, ts, ws, nn1, cn)
             ELSE [pc |-> "await", si |-> i, swi |-> j1, nones |-> nn1, cancelled |-> cn]

SetShut(r) ==
    /\ spc' = r.pc
    /\ si' = r.si
    /\ swi' = r.swi
    /\ nones' = r.nones
    /\ cancelled' = r.cancelled

\* what the actions of this section leave alone
ShutFrame ==
    UNCHANGED <<lock, stopped, accounts, bpc, idx, awaited, phones, done,
                wdpc, wdTodo, wdPhone, counter, clpc, clTodo, clPhone,
                blocking, seen, dispVars, linkVars, authVars, wrapVars, capVars, concVars,
                loginVars>>

\* the watchdog is cancelled (line 580) and shutdown starts
ShutCall ==
    /\ spc = "idle"
    /\ SetShut(FirstRun(1, 0, pool, tasks, workers, nones, cancelled))
    /\ UNCHANGED <<pool, tasks, workers, saved>>
    /\ ShutFrame

\* line 614: the awaited worker task has ended
ShutResume ==
    /\ spc = "await"
    /\ workers[pool[si].val.client][swi] = "exited"
    /\ SetShut(FirstRun(si, swi + 1, pool, tasks, workers, nones, cancelled))
    /\ UNCHANGED <<pool, tasks, workers, saved>>
    /\ ShutFrame

\* line 618: asyncio.sleep(0.1) returns and no other task is left
ShutDrained ==
    /\ spc = "drain"
    /\ ~OthersAlive(tasks, workers)
    /\ SetShut(SecondRun(1, pool, nones, cancelled))
    /\ UNCHANGED <<pool, tasks, workers, saved>>
    /\ ShutFrame

\* lines 623-625: the Session's storage is saved and closed
ShutSave ==
    /\ spc = "second"
    /\ saved' = saved \cup {pool[si].val.client}
    /\ SetShut(SecondRun(si + 1, pool, nones, cancelled))
    /\ UNCHANGED <<pool, tasks, workers>>
    /\ ShutFrame

\* lines 121-124: a worker waiting in get() takes a None and leaves the loop
WorkerTakesNone(c, j) ==
    /\ j \in 1..Len(workers[c])
    /\ workers[c][j] = "get" /\ nones[c] > 0
    /\ workers' = [workers EXCEPT ![c][j] = "exited"]
    /\ nones' = [nones EXCEPT ![c] = @ - 1]
    /\ UNCHANGED <<pool, tasks, spc, si, swi, cancelled, saved>>
    /\ ShutFrame

\* the pass a worker is in ends and the worker calls get() again
PassEnds(c, j) ==
    /\ j \in 1..Len(workers[c])
    /\ workers[c][j] = "busy"
    /\ workers' = [workers EXCEPT ![c][j] = "get"]
    /\ UNCHANGED <<pool, tasks, spc, si, swi, nones, cancelled, saved>>
    /\ ShutFrame

\* a login on which cancel() was called ends with CancelledError
LoginCancelled(t) ==
    /\ t \in cancelled /\ tasks[t].st = "login"
    /\ tasks' = [tasks EXCEPT ![t].st = "cancelled"]
    /\ UNCHANGED <<pool, spc, si, swi, workers, nones, cancelled, saved>>
    /\ ShutFrame

\* lines 828-838: a login not yet cancelled ends; a Session comes with the
\* workers of its dispatcher
LoginEnds(t, ok, n) ==
    /\ t \in 1..Len(tasks)
    /\ tasks[t].st = "login" /\ t \notin cancelled
    /\ tasks' = [tasks EXCEPT ![t].st = IF ok THEN "done" ELSE "failed"]
    /\ pool' = IF ok THEN PoolSet(pool, tasks[t].phone, EntryVal(t, 1)) ELSE pool
    /\ workers' = IF ok THEN [workers EXCEPT ![t] = [j \in 1..n |-> "get"]] ELSE workers
    /\ UNCHANGED <<spc, si, swi, nones, cancelled, saved>>
    /\ ShutFrame

NextShut ==
    \/ ShutCall
    \/ ShutResume
    \/ ShutDrained
    \/ ShutSave
    \/ \E c \in Clients, j \in 1..MaxWorkers : WorkerTakesNone(c, j)
    \/ \E c \in Clients, j \in 1..MaxWorkers : PassEnds(c, j)
    \/ \E t \in Clients : LoginCancelled(t)
    \/ \E t \in Clients, ok \in BOOLEAN, n \in 0..MaxWorkers : LoginEnds(t, ok, n)

(***************************************************************************)
(* ClientsSession.login (lines 705-826) for one identity, and the loginer   *)
(* task around it (lines 828-838).  An attempt builds a Client and awaits   *)
(* client.start() under wait_for(120); how the attempt ends is the          *)
(* environment's choice.  The credential files are the two files login      *)
(* reads and unlinks.                                                       *)
(***************************************************************************)
\* range(3), line 713
Attempts == 3

\* how an attempt can end: client.start() returns, wait_for times out, or
\* Client(...) / client.start() raises
Outcomes == {"ok", "timeout", "operational", "apiflood", "unauthorized",
             "keyerror", "binascii", "rpc", "other", "cancelled"}

\* connection timeout, database error, KeyError
Transient == {"timeout", "operational", "keyerror"}

LoginQuiet ==
    /\ lgpc = "idle"
    /\ attempt = 0
    /\ hist = <<>>
    /\ eBound = FALSE
    /\ session = FALSE
    /\ strFile = FALSE
    /\ sesFile = FALSE
    /\ in_memory = "None"
    /\ client = "unbound"
    /\ lres = ""

\* login is about to be called by the loginer task of identity 1
InitLogin ==
    /\ lgpc = "idle"
    /\ attempt = 0
    /\ hist = <<>>
    /\ eBound = FALSE
    /\ session \in BOOLEAN
    /\ strFile \in BOOLEAN
    /\ sesFile \in BOOLEAN
    /\ in_memory \in {"None", "True", "False"}
    /\ client = "unbound"
    /\ lres = ""
    /\ tasks = <<[phone |-> 1, owner |-> 1, st |-> "login"]>>
    /\ pool = <<[phone |-> 1, val |-> TaskVal(1)]>>
    /\ PoolIdle

\* lines 716-721: session_string is set, from the account or from the file
SessionString(cfg, sf) == cfg \/ sf

\* lines 722-730: the in_memory the Client is built with
InMemory(cfg, sf, df, im) ==
    IF im = "None" THEN ~(~SessionString(cfg, sf) /\ df)
    ELSE IF SessionString(cfg, sf) THEN TRUE
    ELSE im = "True"

\* the name of `except ... as e` stays bound after the block
AfterExceptKept(b) == b

\* the name of `except ... as e` is deleted when the block ends
AfterExcept(b) == FALSE

\* the loop makes one iteration more
NextIterationOneMore(a, eb, sf, df) ==
    IF a < Attempts + 1
    THEN [pc |-> "start", attempt |-> a + 1, res |-> "", eBound |-> eb,
          strFile |-> sf, sesFile |-> df, client |-> "new"]
    ELSE [pc |-> "returned", attempt |-> a, res |-> "None", eBound |-> eb,
          strFile |-> sf, sesFile |-> df, client |-> "new"]

\* the end of the loop body or `continue`: the next iteration builds a new
\* Client and awaits its start; after the last one the loop's else returns
\* None (lines 798-800)
NextIteration(a, eb, sf, df) ==
    IF a < Attempts
    THEN [pc |-> "start", attempt |-> a + 1, res |-> "", eBound |-> eb,
          strFile |-> sf, sesFile |-> df, client |-> "new"]
    ELSE [pc |-> "returned", attempt |-> a, res |-> "None", eBound |-> eb,
          strFile |-> sf, sesFile |-> df, client |-> "new"]

\* `break`: the loop's else is skipped and the else of the outer try runs
\* (lines 820-826) with the client as it is
AfterBreak(a, eb, sf, df, cl) ==
    IF ~sf
    THEN [pc |-> "export", attempt |-> a, res |-> "", eBound |-> eb,
          strFile |-> sf, sesFile |-> df, client |-> cl]
    ELSE [pc |-> "returned", attempt |-> a, res |-> "client", eBound |-> eb,
          strFile |-> sf, sesFile |-> df, client |-> cl]

\* login ends with res
Ends(a, eb, sf, df, cl, res) ==
    [pc |-> "returned", attempt |-> a, res |-> res, eBound |-> eb,
     strFile |-> sf, sesFile |-> df, client |-> cl]

\* lines 770-789: show_exception(e) reads the name e; unbound, that raises
\* UnboundLocalError, which line 810 catches
Unauthorized(a, eb, cfg, sf, df, im) ==
    IF ~eb THEN Ends(a, eb, sf, df, "new", "None")
    ELSE IF cfg THEN AfterBreak(a, eb, sf, df, "new")
    ELSE IF sf THEN NextIteration(a, eb, FALSE, df)
    ELSE IF InMemory(cfg, sf, df, im) THEN NextIteration(a, eb, sf, df)
    ELSE NextIteration(a, eb, sf, FALSE)

\* what follows the end o of the attempt, up to the next await or the return
Handle(o, a, eb, cfg, sf, df, im) ==
    CASE o = "ok"           -> AfterBreak(a, eb, sf, df, "started")
      [] o = "timeout"      -> NextIteration(a, eb, sf, df)
      [] o = "operational"  -> NextIteration(a, AfterExcept(TRUE), sf, FALSE)
      [] o = "apiflood"     -> AfterBreak(a, eb, sf, df, "new")
      [] o = "unauthorized" -> Unauthorized(a, eb, cfg, sf, df, im)
      [] o = "keyerror"     -> [pc |-> "sleep", attempt |-> a, res |-> "",
                                eBound |-> TRUE, strFile |-> sf,
                                sesFile |-> df, client |-> "new"]
      [] o = "binascii"     -> Ends(a, eb, sf, df, "new", "None")
      [] o = "rpc"          -> Ends(a, AfterExcept(TRUE), sf, df, "new", "None")
      [] o = "other"        -> Ends(a, AfterExcept(TRUE), sf, df, "new", "None")
      [] o = "cancelled"    -> Ends(a, eb, sf, df, "new", "cancelled")

SetLogin(r) ==
    /\ lgpc' = r.pc
    /\ attempt' = r.attempt
    /\ lres' = r.res
    /\ eBound' = r.eBound
    /\ strFile' = r.strFile
    /\ sesFile' = r.sesFile
    /\ client' = r.client

LoginFrame ==
    UNCHANGED <<poolVars, dispVars, linkVars, authVars, wrapVars, capVars, concVars, shutVars>>

\* line 829: loginer calls login, which runs to the first client.start()
LoginCall ==
    /\ lgpc = "idle"
    /\ SetLogin(NextIteration(0, eBound, strFile, sesFile))
    /\ UNCHANGED <<hist, session, in_memory>>
    /\ LoginFrame

\* lines 739-797: the attempt ends as o
AttemptEnds(o) ==
    /\ lgpc = "start"
    /\ hist' = Append(hist, o)
    /\ SetLogin(Handle(o, attempt, eBound, session, strFile, sesFile, in_memory))
    /\ UNCHANGED <<session, in_memory>>
    /\ LoginFrame

\* line 795: asyncio.sleep(3) returns, or the task is cancelled in it
SleepEnds(cancel) ==
    /\ lgpc = "sleep"
    /\ SetLogin(IF cancel
                THEN Ends(attempt, eBound, strFile, sesFile, client, "cancelled")
                ELSE NextIteration(attempt, AfterExcept(eBound), strFile, sesFile))
    /\ UNCHANGED <<hist, session, in_memory>>
    /\ LoginFrame

\* lines 821-826: export_session_string() returns and the file is written,
\* or it raises, which no handler of login catches
ExportEnds(o) ==
    /\ lgpc = "export"
    /\ SetLogin(CASE o = "ok" -> Ends(attempt, eBound, TRUE, sesFile, client, "client")
                  [] o = "raise" -> Ends(attempt, eBound, strFile, sesFile, client, "raised")
                  [] o = "cancelled" -> Ends(attempt, eBound, strFile, sesFile, client, "cancelled"))
    /\ UNCHANGED <<hist, session, in_memory>>
    /\ LoginFrame

\* lines 829-838: loginer pools the client login returned, or puts None
LoginerEnds ==
    /\ lgpc = "returned" /\ lres \in {"client", "None"}
    /\ LoginReturns(1, lres = "client")

\* line 829: the exception of login leaves loginer; nothing is put
LoginerRaises ==
    /\ lgpc = "returned" /\ lres \in {"cancelled", "raised"}
    /\ tasks[1].st = "login"
    /\ tasks' = [tasks EXCEPT ![1].st = lres]
    /\ UNCHANGED <<pool, lock, stopped, accounts, bpc, idx, awaited, phones,
                   done, wdpc, wdTodo, wdPhone, counter, clpc, clTodo, clPhone,
                   blocking, seen, nonPoolVars>>

NextLogin ==
    \/ LoginCall
    \/ \E o \in Outcomes : AttemptEnds(o)
    \/ \E cancel \in BOOLEAN : SleepEnds(cancel)
    \/ \E o \in {"ok", "raise", "cancelled"} : ExportEnds(o)
    \/ LoginerEnds
    \/ LoginerRaises

\* the pool before any instance is used
PoolQuiet ==
    /\ InitPool
    /\ accounts = [b \in Borrowers |-> <<1>>]

Init == InitPool /\ DispQuiet /\ InitLink /\ InitAuth /\ InitWrap /\ InitCap /\ InitConc /\ ShutQuiet /\ LoginQuiet

InitD == PoolQuiet /\ InitDisp /\ InitLink /\ InitAuth /\ InitWrap /\ InitCap /\ InitConc /\ ShutQuiet /\ LoginQuiet

InitL == PoolQuiet /\ DispQuiet /\ InitLink /\ InitAuth /\ InitWrap /\ InitCap /\ InitConc /\ ShutQuiet /\ LoginQuiet

InitS == InitShut /\ DispQuiet /\ InitLink /\ InitAuth /\ InitWrap /\ InitCap /\ InitConc /\ LoginQuiet

InitLg == InitLogin /\ DispQuiet /\ InitLink /\ InitAuth /\ InitWrap /\ InitCap /\ InitConc /\ ShutQuiet

\* the dispatcher of one client
SpecDisp == InitD /\ [][NextDisp]_vars

\* the requests of one caller to the relay
SpecLink == InitL /\ [][NextLink]_vars

\* the requests of one caller to a relay that may answer twice
SpecReplies == InitL /\ [][NextReplies]_vars

\* the calls of auth of one caller
SpecAuth == InitL /\ [][NextAuth]_vars

\* the calls of ocr, visual, send_log and send_msg of one caller
SpecWrap == InitL /\ [][NextWrap]_vars

\* the calls of captcha of one caller
SpecCaptcha == InitL /\ [][NextCaptcha]_vars

\* two calls of ocr / visual in progress on one Session
SpecConc == InitL /\ [][NextConc]_vars

\* one login and its loginer task
SpecLogin == InitLg /\ [][NextLogin]_vars

\* client.start() is bounded by wait_for(120), the sleep by 3 s; the event
\* loop runs login and loginer when what they await has ended
FairSpecLogin ==
    /\ SpecLogin
    /\ WF_vars(LoginCall)
    /\ WF_vars(\E o \in Outcomes : AttemptEnds(o))
    /\ WF_vars(\E cancel \in BOOLEAN : SleepEnds(cancel))
    /\ WF_vars(\E o \in {"ok", "raise", "cancelled"} : ExportEnds(o))

\* shutdown over a pool of login Tasks and Sessions
SpecShut == InitS /\ [][NextShut]_vars

\* Every task the event loop holds ready is run: a cancelled login ends, a
\* worker with a None in its queue takes it, a pass ends, and shutdown goes
\* on when what it awaits has happened.
FairSpecShut ==
    /\ SpecShut
    /\ WF_vars(ShutCall)
    /\ WF_vars(ShutResume)
    /\ WF_vars(ShutDrained)
    /\ WF_vars(ShutSave)
    /\ \A c \in Clients, j \in 1..MaxWorkers :
          WF_vars(WorkerTakesNone(c, j)) /\ WF_vars(PassEnds(c, j))
    /\ \A t \in Clients : WF_vars(LoginCancelled(t))

\* acquire, login, release and the watchdog
SpecPool == Init /\ [][NextPool]_vars

SpecPoolClean == Init /\ [][NextPoolClean]_vars

\* The watchdog task sleeps 10 s and scans again for ever; client.stop()
\* returns.
FairSpecPool ==
    /\ SpecPool
    /\ WF_vars(WdScan)
    /\ WF_vars(WdCleanStop)

\* The event loop runs every task that is ready: __aenter__ goes on when the
\* lock is free and the Task it awaits has ended, a login ends (its awaits
\* are bounded, see FairSpecLogin), loginer gets the lock, and the
\* client.stop() of the watchdog's clean returns and frees the lock.
FairSpecAcquire ==
    /\ SpecPool
    /\ WF_vars(WdCleanStop)
    /\ \A b \in Borrowers : WF_vars(Enter(b)) /\ WF_vars(EnterResume(b))
    /\ \A t \in Clients :
          /\ WF_vars(t \in 1..Len(tasks) /\ \E ok \in BOOLEAN : LoginReturns(t, ok))
          /\ WF_vars(t \in 1..Len(tasks) /\ LoginerCommit(t))

(***************************************************************************)
(* Properties of the pool.                                                 *)
(***************************************************************************)
\* the instance has not run __aexit__
Live(b) == bpc[b] # "exited"

\* the instances that hold a reference on identity p
Holders(p) == {b \in Borrowers : Live(b) /\ p \in Range(phones[b])}

EntryOf(pl, p) == PoolGet(pl, p)

HasEntry(pl, p) == PoolHas(pl, p) /\ IsEntry(PoolGet(pl, p))

Processed(b) == {accounts[b][i] : i \in {j \in 1..Len(accounts[b]) : idx[b] <= j /\ j < idx'[b]}}

\* C9: __aexit__ only decrements refcounts: it stops no Session and removes
\* or replaces no entry; and an acquire that finds the entry of identity A
\* (at refcount 0 after a release, in particular) returns the same Session,
\* with the refcount one higher, and starts no login of A.
C9_ReleaseKeepsSession ==
    [][\A b \in Borrowers :
        /\ (bpc[b] = "entered" /\ bpc'[b] = "exited") =>
              /\ stopped' = stopped
              /\ PoolKeys(pool') = PoolKeys(pool)
              /\ \A p \in Phones : HasEntry(pool, p) =>
                    /\ HasEntry(pool', p)
                    /\ EntryOf(pool', p).client = EntryOf(pool, p).client
                    /\ EntryOf(pool', p).ref = EntryOf(pool, p).ref
                                               - (IF p \in Range(phones[b]) THEN 1 ELSE 0)
        /\ (bpc[b] \in {"enter", "await_task"} /\ (bpc'[b] # bpc[b] \/ idx'[b] # idx[b])) =>
              \A p \in Processed(b) : HasEntry(pool, p) =>
                    /\ HasEntry(pool', p)
                    /\ EntryOf(pool', p).client = EntryOf(pool, p).client
                    /\ EntryOf(pool', p).ref = EntryOf(pool, p).ref + 1
                    /\ done'[b] # done[b]
                    /\ EntryOf(pool, p).client \in Range(done'[b])
                    /\ EntryOf(pool, p).client \notin stopped'
                    /\ \A t \in 1..Len(tasks') : tasks'[t].phone = p => t <= Len(tasks)
      ]_vars

\* the watchdog saw identity p at refcount 0 after its owner released it, and
\* another instance then acquired it: same Session, refcount 1, one login
C9_Witness ==
    \E p \in Phones : \E b \in Borrowers :
        /\ HasEntry(pool, p)
        /\ counter[p].in /\ counter[p].n >= 1
        /\ EntryOf(pool, p).ref = 1
        /\ Cardinality({t \in 1..Len(tasks) : tasks[t].phone = p}) = 1
        /\ bpc[tasks[EntryOf(pool, p).client].owner] = "exited"
        /\ b # tasks[EntryOf(pool, p).client].owner
        /\ bpc[b] = "entered"
        /\ EntryOf(pool, p).client \in Range(done[b])

\* the identity p has a Session in the pool that nobody holds
IdleAt(p) == IF HasEntry(pool, p) THEN EntryOf(pool, p).ref = 0 ELSE FALSE

ReacquiredAt(p) == IF HasEntry(pool, p) THEN EntryOf(pool, p).ref > 0 ELSE FALSE

\* p has no entry and every Session logged in for p has been stopped
EvictedAt(p) ==
    /\ ~PoolHas(pool, p)
    /\ \A t \in 1..Len(tasks) :
        (tasks[t].phone = p /\ tasks[t].st = "done") => t \in stopped

\* C10: with the watchdog scanning for ever, a Session whose refcount is 0 is
\* eventually stopped and its entry removed, unless its identity is acquired
\* again.
C10_IdleEventuallyEvicted ==
    \A p \in Phones : IdleAt(p) ~> (EvictedAt(p) \/ ReacquiredAt(p))

\* the watchdog itself evicted an idle Session: it reset the counter at the
\* threshold and its clean() stopped and removed the entry
C10_Witness ==
    \E c \in stopped :
        /\ EvictedAt(tasks[c].phone)
        /\ counter[tasks[c].phone] = [in |-> TRUE, n |-> 0]
        /\ wdpc = "sleep"
        /\ clpc = "idle"

\* clean() calls client.stop() in this step: the watchdog's, the direct one
StopCalledWd == wdpc' = "stop" /\ (wdpc # "stop" \/ wdPhone' # wdPhone)

StopCalledCl == clpc' = "stop" /\ (clpc # "stop" \/ clPhone' # clPhone)

\* C11: over the watchdog's clean, direct clean and clean_all, client.stop()
\* is called at most once on a Session (never on one that is stopped or is
\* being stopped), and a clean of an identity that has no entry, or whose
\* entry is a login placeholder, raises nothing and changes nothing: no
\* clean ends in an exception, the watchdog goes on, no Task is touched.
C11_TeardownIdempotent ==
    [][ /\ StopCalledWd =>
              /\ EntryOf(pool', wdPhone').client \notin stopped'
              /\ ~(clpc' = "stop" /\ clPhone' = wdPhone')
        /\ StopCalledCl =>
              /\ EntryOf(pool', clPhone').client \notin stopped'
              /\ ~(wdpc' = "stop" /\ wdPhone' = clPhone')
        /\ clpc' # "raised"
        /\ wdpc' # "dead"
        /\ blocking' = blocking
      ]_vars

C13_LoginsNeverWait ==
    \A b \in Borrowers : bpc[b] = "await_task" =>
        \A j \in 1..Len(accounts[b]) :
            accounts[b][j] # tasks[awaited[b]].phone => PoolHas(pool, accounts[b][j])

\* C13 amended: an acquire waits only for the login of the identity it has
\* come to in its account list, an identity it comes to that has no entry
\* gets its login started in the same step, and the first identity of the
\* list is started or joined in the acquire's first step, whatever other
\* logins are in flight; an identity listed after one whose login is in
\* flight elsewhere waits for that login.  The pool lock is held across a
\* suspension only by clean() awaiting client.stop(), never by a login.
C13_LoginsIndependent ==
    [][ /\ \A b \in Borrowers :
            /\ bpc'[b] = "await_task" =>
                  tasks'[awaited'[b]].phone = accounts[b][idx'[b]]
            /\ \A p \in Processed(b) : ~PoolHas(pool, p) =>
                  \E t \in (Len(tasks) + 1)..Len(tasks') :
                      /\ tasks'[t] = [phone |-> p, owner |-> b, st |-> "login"]
                      /\ PoolGet(pool', p) = TaskVal(t)
            /\ (bpc[b] = "enter" /\ bpc'[b] # "enter") =>
                  PoolHas(pool', accounts[b][1])
        /\ lock' # "free" =>
              \/ lock' = "wd" /\ wdpc' = "stop"
              \/ lock' = "cleaner" /\ clpc' = "stop"
      ]_vars

\* the login of one identity is in flight and another instance has started
\* the login of the other identity after it: both logins run
C13_Witness ==
    \E t1, t2 \in 1..Len(tasks) :
        /\ t1 < t2
        /\ tasks[t1].st = "login" /\ tasks[t2].st = "login"
        /\ tasks[t1].phone # tasks[t2].phone
        /\ tasks[t1].owner # tasks[t2].owner
        /\ PoolGet(pool, tasks[t1].phone) = TaskVal(t1)
        /\ PoolGet(pool, tasks[t2].phone) = TaskVal(t2)

\* the loginer tasks instance b has created
Own(b) == {t \in 1..Len(tasks) : tasks[t].owner = b}

\* the identities whose login has failed inside the acquire of instance b:
\* a login b started, or one of another instance that b awaited at line 850
FailedPhones(b) ==
    {tasks[t].phone : t \in {u \in 1..Len(tasks) :
        tasks[u].st = "failed" /\ (u \in Own(b) \/ (awaited[b] = u /\ bpc[b] # "await_task"))}}

\* the other identities b requested, when no login of them has failed
Siblings(b) == Range(accounts[b]) \ FailedPhones(b)

SiblingsSucceed(b) ==
    \A t \in 1..Len(tasks) : tasks[t].phone \in Siblings(b) => tasks[t].st # "failed"

\* __aenter__ has returned and every login b started has ended
Settled(b) ==
    /\ bpc[b] \in {"entered", "exited"}
    /\ \A t \in Own(b) : Finished(tasks, t)

\* the items of self.done that are None
Nones(q) == {i \in 1..Len(q) : q[i] = 0}

\* what the iteration of b yields: the items of self.done that are Sessions
Yielded(b) == Range(done[b]) \ {0}

FailureConfined(b) ==
    (Len(accounts[b]) >= 2 /\ Settled(b) /\ FailedPhones(b) # {} /\ SiblingsSucceed(b)) =>
        /\ Len(done[b]) = Len(accounts[b])
        /\ Cardinality(Nones(done[b])) = Cardinality(FailedPhones(b))
        /\ \A a \in Siblings(b) : \E c \in Yielded(b) : tasks[c].phone = a
        /\ bpc[b] = "entered" =>
              \A a \in Siblings(b) :
                  /\ HasEntry(pool, a)
                  /\ EntryOf(pool, a).ref >= 1
                  /\ EntryOf(pool, a).client \in Yielded(b)

\* C14: when a login fails inside an acquire of several identities (a login
\* the acquire started, or one it joined and awaited), the step in which it
\* fails puts one None on its owner's done queue and touches no other login
\* task, no pool entry and no other queue; and once __aenter__ has returned
\* and the instance's logins have ended, with the logins of the sibling
\* identities successful, done holds one item per requested identity (the
\* iteration over len(accounts) items ends), one None per failed identity,
\* and the Session of every sibling, which is pooled with a reference of the
\* instance until it releases.
C14_FailureConfined ==
    [][ /\ \A t \in 1..Len(tasks) :
            (tasks[t].st = "login" /\ tasks'[t].st = "failed") =>
                /\ \A u \in 1..Len(tasks) : u # t => tasks'[u] = tasks[u]
                /\ pool' = pool
                /\ phones' = phones
                /\ bpc' = bpc
                /\ done' = [done EXCEPT ![tasks[t].owner] = Append(@, 0)]
        /\ \A b \in Borrowers : FailureConfined(b)'
      ]_vars

\* C15: when the watchdog's clean stops a Session, the scans have observed
\* that Session's entry at refcount <= 0 on Threshold (timeout / 10, rounded
\* up) scans in a row; and the watchdog's count for an identity is never
\* ahead of the scans in a row that observed its pooled Session at
\* refcount <= 0: a scan that observes refcount > 0 starts the count afresh.
C15_EvictAfterGrace ==
    [][ /\ StopCalledWd => seen'[EntryOf(pool', wdPhone').client] >= Threshold
        /\ \A p \in Phones : (HasEntry(pool', p) /\ counter'[p].in) =>
              counter'[p].n <= seen'[EntryOf(pool', p).client]
      ]_vars

\* the watchdog is stopping a Session that both instances have held and
\* released, after Threshold scans in a row found it at refcount 0
C15_Witness ==
    /\ wdpc = "stop"
    /\ seen[EntryOf(pool, wdPhone).client] = Threshold
    /\ EntryOf(pool, wdPhone).ref = 0
    /\ \A b \in Borrowers :
          bpc[b] = "exited" /\ EntryOf(pool, wdPhone).client \in Range(done[b])

(***************************************************************************)
(* Properties of the dispatcher.                                           *)
(***************************************************************************)
\* the handlers of group g in a copy of the groups
HandlersOf(gs, g) ==
    UNION {Range(gs[i].handlers) : i \in {j \in 1..Len(gs) : gs[j].group = g}}

\* C3: for every update the worker processes, at most one handler callback
\* is invoked: once a handler has been invoked for the update, no later
\* handler of its group and no handler of a higher group is invoked for it.
C3_AtMostOneCallback ==
    /\ Len(calls) <= 1
    /\ \A i \in 1..Len(calls) : calls[i].update = cur
    /\ wpc = "callback" => Len(calls) = 1

\* a pass has ended in which a handler of group 0 was invoked while a Raw
\* handler, which takes every update, was registered in group 1
C3_Witness ==
    /\ wpc = "get"
    /\ Len(calls) = 1
    /\ calls[1].handler \in HandlersOf(snapshot, 0)
    /\ \E h \in HandlersOf(snapshot, 1) : HandlerKind(h) = "raw"

\* the tasks of fn() waiting in the ready queue, in order
FnItems(rd) == SelectSeq(rd, LAMBDA it : it.kind = "fn")

RECURSIVE ApplyAll(_, _)
ApplyAll(gs, fns) ==
    IF fns = <<>> THEN gs ELSE ApplyAll(ApplyFn(gs, Head(fns)), Tail(fns))

\* the pending registrations up to the last one issued while a callback ran
IssuedInCallback(rd) ==
    LET fns == FnItems(rd)
        tagged == {i \in 1..Len(fns) : fns[i].pass # 0}
    IN  IF tagged = {} THEN <<>>
        ELSE SubSeq(fns, 1, CHOOSE i \in tagged : \A j \in tagged : j <= i)

\* C4: a dispatch pass keeps the snapshot taken at its start, and an
\* add_handler or remove_handler issued while a callback of a pass is running
\* is in effect for the snapshot of the next update dispatched after it.
C4_SnapshotThenNextPass ==
    [][ /\ (wpc \in {"filter", "callback"} /\ cur' = cur) => snapshot' = snapshot
        /\ cur' # cur => snapshot' = ApplyAll(groups, IssuedInCallback(ready))
      ]_vars

(***************************************************************************)
(* Properties of Link.post.                                                *)
(***************************************************************************)
\* a call of post has returned or raised
Ended == lpc = "idle" /\ nCalls > 0

\* post is inside the inner try of attempt `retry` (lines 106-148)
InAttempt == lpc \in {"send", "wait", "tdelete", "tsleep", "fdelete"}

\* C5: post(cmd) called while the cached result of cmd has not run out
\* returns that result, sends no message and registers no handler; called
\* after the entry has run out it does not return the cached value, and when
\* the relay answers the first attempt it returns the answer after exactly
\* one outbound message.
C5_CachedNoExchange ==
    [][ /\ \A c \in Cmds :
            (lpc = "idle" /\ nCalls' = nCalls + 1 /\ req'.cmd = c
                          /\ cache[c].exp > now)
            => /\ lpc' = "idle"
               /\ ret' = [kind |-> "value", via |-> "cached", val |-> cache[c].val]
               /\ stat'.sends = 0
               /\ chat' = chat
               /\ handlers' = handlers
        /\ (lpc' = "idle" /\ nCalls' > 0 /\ req'.entry = "expired")
            => /\ ret'.via # "cached"
               /\ (stat'.faults = 0 /\ stat'.timeouts = 0)
                    => /\ ret'.kind = "value" /\ ret'.via = "reply"
                       /\ stat'.sends = 1
      ]_vars

\* a second call found the result the first call had cached: nothing was sent
\* and nothing is registered
C5_Witness ==
    /\ Ended /\ nCalls = 2
    /\ req.entry = "fresh"
    /\ ret.kind = "value" /\ ret.via = "cached" /\ ret.val = cache[req.cmd].val
    /\ stat.sends = 0
    /\ handlers = {}
    /\ \A m \in chat : m.dir # "out"

\* C6: when an attempt of post has ended, by whatever path, its reply handler
\* is no longer registered and the outbound message it sent is deleted.
C6_AttemptCleansUp ==
    /\ handlers \subseteq (IF InAttempt THEN {Hid(nCalls, retry)} ELSE {})
    /\ \A m \in chat : m.dir = "out" => (InAttempt /\ m = OutMsg(nCalls, retry))

\* C7: a call in which no reply resolves the future and nothing raises sends
\* exactly `retries` requests, waits the full `timeout` on each, sleeps 3 s
\* between consecutive attempts (retries - 1 times), and ends after the last
\* attempt's timeout with None, or LinkError when fail is set.
C7_TimeoutAfterAllAttempts ==
    /\ (Ended /\ req.entry # "fresh" /\ stat.faults = 0 /\ stat.accepted = 0)
        => /\ ret = [kind |-> IF req.fail THEN "LinkError" ELSE "None",
                     via |-> "timeout", val |-> Pending]
           /\ stat.sends = req.retries
           /\ stat.timeouts = req.retries
           /\ stat.waited = req.retries * req.timeout
           /\ stat.sleeps = req.retries - 1
    /\ (~Ended /\ stat.faults = 0 /\ stat.accepted = 0)
        => /\ ret = NoRet
           /\ stat.sends <= req.retries
           /\ stat.waited = stat.timeouts * req.timeout
           /\ stat.sleeps <= stat.timeouts

\* three attempts have timed out, the relay's only message was rejected, and
\* the call has ended
C7_Witness ==
    /\ Ended /\ ret.via = "timeout"
    /\ req.retries = 3 /\ stat.sends = 3 /\ stat.sleeps = 2
    /\ stat.waited = 3 * req.timeout
    /\ stat.replies = 1 /\ stat.accepted = 0 /\ stat.faults = 0

\* C8: a call whose only exceptions are FloodWaitErrors sleeps exactly the
\* seconds they ask for and still makes `retries` timed-out attempts before
\* it reports timeout: a rate-limited attempt takes no retries slot.
C8_FloodWaitKeepsBudget ==
    (Ended /\ stat.floods > 0 /\ stat.faults = stat.floods /\ stat.accepted = 0)
        => /\ stat.floodSlept = stat.floodAsked
           /\ ret.via = "timeout"
           /\ stat.timeouts = req.retries

\* C16: the step in which a send raises UserBlockedError ends post: it
\* returns None, or raises LinkError when fail is set, with the attempt's
\* handler removed, nothing sent, the cache as it was; and until the next
\* call no message is sent and nothing is cached.
C16_BlockedIsTerminal ==
    [][ /\ stat'.blocked > stat.blocked =>
              /\ lpc' = "idle"
              /\ ret' = [kind |-> IF req.fail THEN "LinkError" ELSE "None",
                         via |-> "blocked", val |-> Pending]
              /\ stat'.sends = stat.sends
              /\ chat' = chat
              /\ cache' = cache
              /\ Hid(nCalls, retry) \notin handlers'
        /\ (stat.blocked > 0 /\ nCalls' = nCalls) =>
              /\ lpc' = "idle"
              /\ stat'.sends = stat.sends
              /\ chat' = chat
              /\ cache' = cache
      ]_vars

\* the first attempt was sent and timed out, the send of the second one
\* raised UserBlockedError with a third attempt still to go, and post has
\* ended
C16_Witness ==
    /\ Ended /\ stat.blocked = 1
    /\ ret.via = "blocked"
    /\ stat.sends = 1 /\ stat.timeouts = 1
    /\ req.retries = 3

(***************************************************************************)
(* Properties of Link.auth and of the wrappers.                            *)
(***************************************************************************)
\* C17: once auth(service) has returned a result it obtained from post, a
\* call of auth(service) less than the TTL later returns that result in the
\* same step: it does not call post, registers no handler and sends
\* nothing, with and without log_func.
C17_AuthMemoized ==
    [][ \A s \in Services :
            (/\ nAuths' = nAuths + 1 /\ areq'.service = s
             /\ obtained[s].val # "None"
             /\ now < obtained[s].at + CacheTTL)
            => /\ apc' = "idle"
               /\ aret' = obtained[s].val
               /\ nCalls' = nCalls
               /\ handlers' = handlers
               /\ chat' = chat
      ]_vars

\* C18: a call of ocr, visual, send_log or send_msg that has ended was not
\* answered from the cache, and when post returned a reply to it, the reply
\* is one the relay sent during this call.
C18_WrappersUncached ==
    (Ended /\ Len(wop) = nCalls) =>
        /\ ret.via # "cached"
        /\ ret.kind = "value" => ret.val.msg.call = nCalls

(***************************************************************************)
(* Properties of the dispatcher's queue and registrations.                 *)
(***************************************************************************)
\* the calls of add_handler / remove_handler for (h, g) made before update
\* u was enqueued, and those made after
CallsBefore(u, h, g) ==
    {i \in 1..Len(regs) : regs[i].handler = h /\ regs[i].group = g /\ regs[i].at < u}

CallsAfter(u, h, g) ==
    {i \in 1..Len(regs) : regs[i].handler = h /\ regs[i].group = g /\ regs[i].at >= u}

Last(S) == CHOOSE i \in S : \A j \in S : j <= i

First(S) == CHOOSE i \in S : \A j \in S : i <= j

\* update u was enqueued after add_handler(h, g) was called and before
\* remove_handler(h, g) was called: the last call before u is an add, or
\* there is none and the first call after u removes a handler that was there
RegisteredFor(u, h, g) ==
    IF CallsBefore(u, h, g) # {}
    THEN regs[Last(CallsBefore(u, h, g))].op = "add"
    ELSE /\ CallsAfter(u, h, g) # {}
         /\ regs[First(CallsAfter(u, h, g))].op = "remove"
         /\ regs[First(CallsAfter(u, h, g))].had

\* the updates the worker takes from the queue in this step
Taken ==
    IF Len(updates_queue') < Len(updates_queue)
    THEN {updates_queue[i] : i \in 1..(Len(updates_queue) - Len(updates_queue'))} \ {0}
    ELSE {}

\* C19: when the worker takes an update from the queue, every handler whose
\* add_handler was called before the update was enqueued, and whose
\* remove_handler was not, is in the groups the pass copies: the pass comes
\* to the handler unless an earlier handler's callback ends it.
C19_HandlerSeesUpdates ==
    [][ \A u \in Taken, h \in Handlers, g \in GroupIds :
            RegisteredFor(u, h, g) => h \in HandlersIn(groups, g)
      ]_vars

\* the updates in the queue, the stop sentinel left out
Waiting(q) == SelectSeq(q, LAMBDA x : x # 0)

\* C20: put_nowait on the unbounded queue is possible whatever the queue
\* holds and appends the update; the updates are numbered in enqueue order,
\* and after every step the queue holds exactly the updates after the last
\* one the worker took, in order: the worker takes each update once, in
\* enqueue order, and none is lost.  The step in which the worker stops
\* takes the sentinel after every packet that was in front of it.
C20_QueueExactlyOnceInOrder ==
    [][ /\ (wrun # "running" /\ nUpdates < MaxUpdates) => ENABLED Enqueue
        /\ nUpdates' = nUpdates + 1 =>
              updates_queue' = Append(updates_queue, nUpdates')
        /\ Waiting(updates_queue') = [i \in 1..(nUpdates' - cur') |-> cur' + i]
        /\ cur' >= cur
        /\ (wpc' = "stopped" /\ wpc # "stopped") =>
              \E k \in 1..Len(updates_queue) :
                  /\ updates_queue[k] = 0
                  /\ cur' = cur + k - 1
                  /\ updates_queue' = SubSeq(updates_queue, k + 1, Len(updates_queue))
      ]_vars

\* every update was enqueued before the sentinel, the worker has taken them
\* all, invoked a callback for the last one, and stopped
C20_Witness ==
    /\ wpc = "stopped"
    /\ nUpdates = MaxUpdates /\ cur = MaxUpdates
    /\ updates_queue = <<>>
    /\ Len(calls) = 1 /\ calls[1].update = MaxUpdates

\* C21: in the step in which a handler's filter or callback raises an
\* Exception, the worker does not end unless it takes the stop sentinel from
\* the queue; after a filter's exception the pass may go on with a later
\* handler of the same update; otherwise the worker takes the next packet
\* when there is one, and waits in get() only with the queue empty.
C21_ErrorsKeepWorker ==
    [][ outcome' \in {"raise", "error"} =>
          /\ wpc' = "stopped" =>
                \E k \in 1..Len(updates_queue) :
                    /\ updates_queue[k] = 0
                    /\ updates_queue' = SubSeq(updates_queue, k + 1, Len(updates_queue))
          /\ wpc' = "get" => updates_queue' = <<>>
          /\ ~(outcome' = "raise" /\ cur' = cur /\ wpc' \in {"filter", "callback"}
                                  /\ <<gi', hi'>> # <<gi, hi>>) =>
                (updates_queue # <<>> => Len(updates_queue') < Len(updates_queue))
      ]_vars

\* the callback invoked for the first update raised an Exception and, in
\* the same step, the worker took the second update and invoked a callback
\* for it
C21_Witness ==
    /\ outcome = "error"
    /\ cur = 2 /\ wpc = "callback"
    /\ Len(calls) = 1 /\ calls[1].update = 2


\* what shutdown is to leave behind: no login Task still running, every
\* worker of every pooled Session ended, every pooled Session saved and closed
ShutClean ==
    /\ \A t \in 1..Len(tasks) : tasks[t].st # "login"
    /\ \A i \in 1..Len(pool) :
          IsEntry(pool[i].val) =>
              /\ \A j \in 1..Len(workers[pool[i].val.client]) :
                    workers[pool[i].val.client][j] = "exited"
              /\ pool[i].val.client \in saved

\* C22: shutdown, once called, returns, and when it has returned every login
\* in flight was cancelled, every handler worker of every pooled Session has
\* ended, whatever the number of workers, and every pooled Session is saved
\* and closed.
C22_ShutdownCompletes ==
    /\ [](spc = "done" => ShutClean)
    /\ (spc # "idle" ~> spc = "done")

\* shutdown stays at line 614 for ever: the Session has two workers, one
\* took the only None, the other waits in get() on an empty queue
C22_Stuck ==
    /\ spc = "await"
    /\ Len(workers[pool[si].val.client]) = 2
    /\ nones[pool[si].val.client] = 0
    /\ \E j \in 1..2 : workers[pool[si].val.client][j] = "exited"
    /\ workers[pool[si].val.client][swi] = "get"


\* C23: login ends, after at most 3 attempts; an attempt that ends with a
\* connection timeout, a database error or a KeyError before the third is
\* followed by a new attempt (for the KeyError after the sleep, unless the
\* task is cancelled in it); and when three attempts ended that way login
\* returns no Session.
C23_LoginBounded ==
    /\ [](Len(hist) <= Attempts /\ attempt <= Attempts)
    /\ [][ (lgpc = "start" /\ Len(hist') = Len(hist) + 1
              /\ hist'[Len(hist')] \in Transient /\ attempt < Attempts) =>
                /\ lgpc' \in {"start", "sleep"}
                /\ lgpc' = "start" => attempt' = attempt + 1
          ]_vars
    /\ [][ (lgpc = "sleep" /\ lgpc' # "sleep") =>
                \/ lres' = "cancelled"
                \/ attempt < Attempts /\ lgpc' = "start" /\ attempt' = attempt + 1
                \/ attempt = Attempts /\ lgpc' = "returned" /\ lres' = "None"
          ]_vars
    /\ [](lgpc = "returned" /\ Len(hist) = Attempts
            /\ (\A k \in 1..Len(hist) : hist[k] \in Transient)
          => lres \in {"None", "cancelled"} /\ (lres = "None" => attempt = Attempts))
    /\ <>(lgpc = "returned")

C23_Witness ==
    /\ lgpc = "returned" /\ lres = "None"
    /\ hist = <<"timeout", "operational", "keyerror">>
    /\ tasks[1].st = "failed" /\ IsTask(PoolGet(pool, 1))


C25_LockNotHeldAcrossIO ==
    /\ ~(wdpc = "stop" /\ lock = "wd")
    /\ ~(clpc = "stop" /\ lock = "cleaner")

\* the watchdog's clean is inside client.stop() of one identity with the
\* lock held while an instance is about to acquire another identity
C25_AcquireBlocked ==
    /\ wdpc = "stop" /\ lock = "wd"
    /\ \E b \in Borrowers :
          /\ bpc[b] = "enter" /\ idx[b] <= Len(accounts[b])
          /\ accounts[b][idx[b]] # wdPhone


\* the groups are in ascending numeric order
Ascending(gs) == \A i, j \in 1..Len(gs) : i < j => gs[i].group < gs[j].group

\* the handlers of group g in registration order, none without the group
ListOf(gs, g) ==
    IF HasGroup(gs, g)
    THEN gs[CHOOSE i \in 1..Len(gs) : gs[i].group = g].handlers
    ELSE <<>>

\* new is old without one of its elements, the others in their order
OneRemoved(old, new) ==
    \E k \in 1..Len(old) :
        new = [i \in 1..(Len(old) - 1) |-> IF i < k THEN old[i] ELSE old[i + 1]]

\* position <<a, b>> of a snapshot is before position <<c, d>>
PosBefore(a, b, c, d) == a < c \/ (a = c /\ b < d)

\* every handler of snap strictly between the two positions is of a type
\* that is never invoked
NoneBetween(snap, a, b, c, d) ==
    \A i \in 1..Len(snap) : \A j \in 1..Len(snap[i].handlers) :
        (PosBefore(a, b, i, j) /\ PosBefore(i, j, c, d)) =>
            HandlerKind(snap[i].handlers[j]) = "other"

\* C26: the groups and every snapshot are in ascending group order whatever
\* the order of registration; a registration appends to its group and a
\* removal keeps the order of the others; and a pass tries the handlers in
\* the order of its snapshot: it goes on to a later handler only after a
\* filter that did not match, skips only handlers that are never invoked, and
\* the callback it invokes is that of the first handler that matched.
C26_FirstMatchInOrder ==
    /\ \A i \in 1..Len(groups) :
          \A j, k \in 1..Len(groups[i].handlers) :
              j < k => groups[i].handlers[j] < groups[i].handlers[k]
    /\ [](Ascending(groups) /\ Ascending(snapshot))
    /\ [][ \A g \in GroupIds :
              \/ ListOf(groups', g) = ListOf(groups, g)
              \/ /\ ready # <<>> /\ Head(ready).kind = "fn"
                 /\ Head(ready).group = g
                 /\ \/ /\ Head(ready).op = "add"
                       /\ ListOf(groups', g) = Append(ListOf(groups, g), Head(ready).handler)
                    \/ /\ Head(ready).op = "remove"
                       /\ OneRemoved(ListOf(groups, g), ListOf(groups', g))
          ]_vars
    /\ [][ (/\ wpc' \in {"filter", "callback"}
            /\ (cur' # cur \/ <<gi', hi'>> # <<gi, hi>>)) =>
              /\ snapshot' = IF cur' = cur THEN snapshot ELSE groups
              /\ cur' = cur => wpc = "filter" /\ outcome' \in {"nomatch", "raise"}
              /\ LET a == IF cur' = cur THEN gi ELSE 1
                     b == IF cur' = cur THEN hi ELSE 0
                 IN  /\ PosBefore(a, b, gi', hi')
                     /\ NoneBetween(snapshot', a, b, gi', hi')
              /\ HandlerKind(snapshot'[gi'].handlers[hi']) =
                    (IF wpc' = "filter" THEN "event" ELSE "raw")
          ]_vars
    /\ [][ (wpc = "filter" /\ outcome' = "match") =>
              /\ wpc' = "callback" /\ cur' = cur /\ snapshot' = snapshot
              /\ <<gi', hi'>> = <<gi, hi>>
          ]_vars
    /\ [](wpc = "callback" =>
              /\ calls # <<>>
              /\ calls[Len(calls)] = [update |-> cur,
                                       handler |-> snapshot[gi].handlers[hi]])

\* handler 1 was registered first, in group 1; handler 2, registered after
\* it in group 0, is the one invoked
C26_Witness ==
    /\ wpc = "callback"
    /\ Len(snapshot) = 2 /\ snapshot[1].group = 0 /\ snapshot[2].group = 1
    /\ 1 \in Range(snapshot[2].handlers)
    /\ gi = 1 /\ snapshot[gi].handlers[hi] = 2
    /\ calls = <<[update |-> cur, handler |-> 2]>>


\* the packets of the queue that are ahead of the None
AheadOfNone(q) ==
    {q[k] : k \in {i \in 1..Len(q) : \A j \in 1..i : q[j] # 0}}

\* C27: the None goes behind every update enqueued so far and every later
\* update goes behind the None; a pass is started only for an update that is
\* ahead of the None; the worker leaves its loop in the step that takes the
\* None, when every update ahead of it has been taken and its pass is over;
\* and after that it starts no pass and invokes no callback.
C27_DrainThenStop ==
    /\ [][ (0 \notin Range(updates_queue) /\ 0 \in Range(updates_queue')) =>
              updates_queue' = Append(updates_queue, 0) ]_vars
    /\ [][ nUpdates' # nUpdates =>
              updates_queue' = Append(updates_queue, nUpdates') ]_vars
    /\ [][ cur' # cur => cur' \in AheadOfNone(updates_queue) ]_vars
    /\ [][ (wpc' = "stopped" /\ wpc # "stopped") =>
              /\ 0 \in Range(updates_queue)
              /\ 0 \notin AheadOfNone(updates_queue)
              /\ Range(updates_queue') \cap AheadOfNone(updates_queue) = {}
              /\ Len(updates_queue') =
                    Len(updates_queue) - Cardinality(AheadOfNone(updates_queue)) - 1
              /\ 0 \notin Range(updates_queue')
          ]_vars
    /\ [][ wpc = "stopped" =>
              wpc' = "stopped" /\ cur' = cur /\ calls' = calls /\ wrun' = wrun ]_vars

\* update 1 was enqueued before the None and dispatched, update 2 after it:
\* the worker has left its loop and update 2 stays in the queue
C27_Witness ==
    /\ wpc = "stopped"
    /\ nUpdates = 2 /\ updates_queue = <<2>>
    /\ cur = 1 /\ Len(calls) = 1 /\ calls[1].update = 1


\* C28: the handler of an attempt is registered when its request is sent
\* and stays registered as long as the attempt lasts, so every message of
\* the relay that arrives during the attempt, before or after the send, is
\* handled by it: the message is deleted again unless the delete raises.
C28_HandlerBeforeSend ==
    /\ [](InAttempt => Hid(nCalls, retry) \in handlers)
    /\ [][ stat'.sends = stat.sends + 1 =>
              /\ lpc = "send" /\ lpc' = "wait"
              /\ Hid(nCalls, retry) \in handlers
              /\ OutMsg(nCalls, retry) \notin chat
          ]_vars
    /\ [][ (stat'.replies = stat.replies + 1 /\ InAttempt) =>
              /\ Hid(nCalls, retry) \in handlers
              /\ \/ InMsg(nCalls, stat'.replies) \notin chat'
                 \/ nFaults' = nFaults + 1
              /\ stat'.accepted = stat.accepted + 1 =>
                    future.st = "pending" /\ future'.st = "done"
                    /\ future'.msg = InMsg(nCalls, stat'.replies)
          ]_vars

\* the reply arrived after the send, the handler of the attempt took it as
\* the result and deleted it
C28_Witness ==
    /\ lpc = "wait" /\ stat.sends = 1 /\ stat.replies = 1 /\ stat.accepted = 1
    /\ future.st = "done" /\ future.msg = InMsg(nCalls, 1)
    /\ InMsg(nCalls, 1) \notin chat
    /\ OutMsg(nCalls, retry) \in chat


\* the attempt of the call in progress is the same before and after the step
SameAttempt == nCalls' = nCalls /\ retry' = retry /\ lpc # "idle" /\ lpc' # "idle"

\* C29: once the future of an attempt has a result, nothing changes it while
\* the attempt lasts: a later accepted reply is handled and deleted like any
\* other message and leaves the future, and the place post is at, as they
\* are; the accepted replies of an attempt that set its future are at most
\* one.
C29_ResolvedOnce ==
    /\ [][ (future.st = "done" /\ SameAttempt) => future' = future ]_vars
    /\ [][ (/\ future.st = "done" /\ stat'.replies = stat.replies + 1
            /\ Hid(nCalls, retry) \in handlers) =>
              /\ future' = future /\ stat'.accepted = stat.accepted
              /\ lpc' = lpc /\ ret' = ret /\ after' = after
              /\ nFaults' = nFaults => InMsg(nCalls, stat'.replies) \notin chat'
          ]_vars
    /\ [][ stat'.accepted = stat.accepted + 1 =>
              future.st = "pending" /\ future'.st = "done" ]_vars
    /\ [](future.st = "done" => future.msg \in {InMsg(nCalls, n) : n \in 1..stat.replies})

\* a second reply came while the handler was registered and the future
\* had the result of the first
C29_Witness ==
    /\ lpc = "wait" /\ stat.sends = 1
    /\ stat.replies = 2 /\ stat.accepted = 1
    /\ future.st = "done" /\ future.msg = InMsg(nCalls, 1)
    /\ Hid(nCalls, retry) \in handlers
    /\ chat = {OutMsg(nCalls, retry)}


\* C30: a message of the relay that arrives while a handler of post is
\* registered is not in the chat after the handler has run, whether it set
\* the future or not, unless the delete itself raised; nothing else enters
\* or leaves the chat in that step.
C30_InspectedDeleted ==
    [][ (stat'.replies = stat.replies + 1 /\ handlers # {}) =>
          /\ \/ chat' = chat /\ InMsg(nCalls, stat'.replies) \notin chat'
             \/ /\ nFaults' = nFaults + 1
                /\ chat' = chat \cup {InMsg(nCalls, stat'.replies)}
          /\ handlers' = handlers
      ]_vars

\* a reply the handler did not accept has come and is deleted
C30_Witness ==
    /\ lpc = "wait" /\ stat.sends = 1
    /\ stat.replies = 1 /\ stat.accepted = 0 /\ nFaults = 0
    /\ future.st = "pending"
    /\ Hid(nCalls, retry) \in handlers
    /\ chat = {OutMsg(nCalls, retry)}


\* wait_for returns the result of the future in this step (lines 119-125)
Resolves == lpc = "wait" /\ future.st = "done" /\ lpc' # "wait"

\* C31: when wait_for returns a matched reply, post writes it to the cache
\* under the key of its cmd if its status is "ok" and leaves the cache alone
\* if it is not, and the reply is what `return results` hands on in both
\* cases; the next post of the same cmd after a returned reply whose status
\* is not "ok" finds no entry and starts an exchange.
C31_OnlyOkCached ==
    [][ /\ Resolves =>
            /\ after' = Returns("value", "reply", future)
            /\ future.status = "ok" =>
                 cache' = [cache EXCEPT ![req.cmd] =
                              [exp |-> now + CacheTTL, val |-> future]]
            /\ future.status # "ok" => cache' = cache
        /\ ( /\ nCalls' = nCalls + 1 /\ req'.cmd = req.cmd
             /\ ret.kind = "value" /\ ret.via = "reply"
             /\ ret.val.status # "ok" )
            => /\ req'.entry # "fresh"
               /\ lpc' = "send"
               /\ Hid(nCalls', 0) \in handlers'
      ]_vars

\* post has returned a matched reply whose status is not "ok" while the cache
\* holds, under the key of its cmd, the "ok" reply to an earlier attempt of
\* the same call
C31_OkCachedOtherReturned ==
    /\ Ended /\ nCalls = 1
    /\ ret.kind = "value" /\ ret.via = "reply" /\ ret.val.status = "notok"
    /\ CacheHit(cache, req.cmd, now)
    /\ cache[req.cmd].val.status = "ok"
    /\ cache[req.cmd].val # ret.val


\* captcha returns in this step, from its own cache or after post
CaptchaReturns ==
    \/ cpc = "post" /\ cpc' = "idle"
    \/ nCaps' = nCaps + 1 /\ cpc' = "idle"

\* C32: the token captcha returns is that of a reply received from the relay
\* at most 300 s before the return, and a call that finds its own entry run
\* out starts an exchange with the relay.
C32_CaptchaOwnTTL ==
    [][ /\ (CaptchaReturns /\ cret'.st = "done")
            => now' - tokAt'[cret'.msg.call] <= CaptchaTTL
        /\ (nCaps' = nCaps + 1 /\ creq'.entry = "expired")
            => /\ lpc' = "send"
               /\ Hid(nCalls', 0) \in handlers'
      ]_vars

\* a call made when captcha's own entry had run out has returned the token
\* of the reply received 300 s before or earlier, and has sent nothing
C32_StaleToken ==
    /\ cpc = "idle" /\ lpc = "idle" /\ nCaps = 2
    /\ creq.entry = "expired"
    /\ ret.via = "cached" /\ stat.sends = 0
    /\ cret = ret.val /\ cret.st = "done"
    /\ now - tokAt[cret.msg.call] >= CaptchaTTL
    /\ CacheHit(capCache, creq.site, now)


\* C33: while the entry of an identity is a Session (no login of it is in
\* flight), its refcount is the number of instances that acquired it and
\* have not run __aexit__; in particular it is 0 once they all have.
C33_RefcountConservation ==
    \A p \in Phones :
        (PoolHas(pool, p) /\ IsEntry(PoolGet(pool, p)))
            => PoolGet(pool, p).ref = Cardinality(Holders(p))

\* every instance has run __aexit__, the one that started the login before
\* the login ended, and the Session is pooled at refcount 1
C33_RefLeftBehind ==
    /\ \A b \in Borrowers : bpc[b] = "exited"
    /\ \E p \in Phones :
        /\ PoolHas(pool, p) /\ IsEntry(PoolGet(pool, p))
        /\ PoolGet(pool, p).ref = 1
        /\ Holders(p) = {}


\* C34: the done queue of an instance never gets more items than the instance
\* has accounts, and once __aenter__ has returned it eventually has that
\* many, so that the len(accounts) calls of done.get() of the iteration all
\* return.
C34_IterationTerminates ==
    /\ [](\A b \in Borrowers : Len(done[b]) <= Len(accounts[b]))
    /\ \A b \in Borrowers :
          (bpc[b] = "entered") ~> (Len(done[b]) = Len(accounts[b]))

\* __aenter__ has returned for every instance and every login has ended, and
\* the done queue of one instance is short of an item: nothing will put it
C34_IterationStuck ==
    /\ \A b \in Borrowers : bpc[b] = "entered"
    /\ \A t \in 1..Len(tasks) : Finished(tasks, t)
    /\ lock = "free"
    /\ \E b \in Borrowers : Len(done[b]) < Len(accounts[b])


\* C35: the Task of a login that has failed is not a value of the pool.
C35_NoStalePlaceholder ==
    \A t \in 1..Len(tasks) :
        tasks[t].st = "failed" =>
            \A i \in 1..Len(pool) : pool[i].val # TaskVal(t)

\* an instance has acquired an identity after its login had failed: the pool
\* still holds the Task of that login, no new login was started and the
\* instance got nothing on its done queue
C35_JoinedFailedLogin ==
    \E b \in Borrowers :
        /\ bpc[b] = "entered" /\ Len(accounts[b]) = 1
        /\ Own(b) = {} /\ done[b] = <<>>
        /\ PoolHas(pool, accounts[b][1])
        /\ IsTask(PoolGet(pool, accounts[b][1]))
        /\ tasks[PoolGet(pool, accounts[b][1]).id].st = "failed"


\* C36: login returns a Client, and loginer pools it and puts it on the done
\* queue, only if the last attempt ended with client.start() returning.
C36_OnlyStartedPooled ==
    /\ lres = "client" =>
          /\ client = "started"
          /\ hist # <<>> /\ hist[Len(hist)] = "ok"
    /\ (IsEntry(PoolGet(pool, 1)) \/ \E k \in 1..Len(done[1]) : done[1][k] # 0)
          => client = "started"

\* the attempt ended with ApiIdPublishedFloodError and the Client that never
\* started is pooled at refcount 1 and on the done queue
C36_UnstartedPooled ==
    /\ hist # <<>> /\ hist[Len(hist)] = "apiflood"
    /\ \A k \in 1..Len(hist) : hist[k] # "ok"
    /\ client = "new" /\ lres = "client"
    /\ PoolGet(pool, 1) = EntryVal(1, 1)
    /\ done[1] = <<1>>


\* C37: a call of post with fail=True that has ended has returned a reply
\* (from the relay or from the cache) or raised LinkError.
C37_FailNeverNone ==
    (Ended /\ req.fail) => ret.kind \in {"value", "LinkError"}

\* post(fail=True) has returned None: its only attempt raised FloodWaitError,
\* post slept and the loop was over
C37_NoneAfterFlood ==
    /\ Ended /\ req.fail /\ req.retries = 1
    /\ ret.kind = "None" /\ ret.via = "exhausted"
    /\ stat.floods = 1 /\ stat.floodSlept = stat.floodAsked
    /\ stat.timeouts = 0


\* auth returns in this step after it has awaited post
AuthReturnsAfterPost == apc = "post" /\ apc' = "idle"

\* C38: auth returns True after its exchange, and records True for the
\* service, only if post returned a reply of the relay whose status is "ok".
C38_TrueOnlyOnOk ==
    [][ (AuthReturnsAfterPost
            /\ (aret' = "True" \/ authed'[areq.service] = "True"
                               \/ authCache'[areq.service].val = "True"))
        => (ret.kind = "value" /\ ret.val.status = "ok")
      ]_vars

\* auth without log_func has returned True, and cached it, for a reply whose
\* status is not "ok"
C38_TrueOnRefusal ==
    /\ apc = "idle" /\ nAuths = 1 /\ ~areq.log
    /\ ret.kind = "value" /\ ret.via = "reply" /\ ret.val.status = "notok"
    /\ aret = "True"
    /\ AuthCacheGet(authCache, areq.service, now) = "True"

\* auth with log_func has returned True, and recorded it, after post returned
\* None
C38_TrueOnNone ==
    /\ apc = "idle" /\ nAuths = 1 /\ areq.log
    /\ ret.kind = "None"
    /\ aret = "True"
    /\ authed[areq.service] = "True"


\* C39: the future of a call of post is set only by the reply of the relay
\* to a request of that call, and what the call returns from the relay is
\* such a reply.
C39_OwnReplyOnly ==
    \A i \in Posts :
        /\ futures[i].st = "done" => futures[i].msg.call = i
        /\ (pret[i].kind = "value" /\ pret[i].via = "reply")
              => pret[i].val.msg.call = i

\* two calls of ocr with different photos are waiting, and the relay's reply
\* to the first has set the future of both
C39_BothResolvedByOne ==
    /\ preq[1].cmd = OcrCmd /\ preq[2].cmd = OcrCmd
    /\ preq[1].photo # preq[2].photo
    /\ ppc[1] = "wait" /\ ppc[2] = "wait"
    /\ nRep = 1 /\ asked = {2}
    /\ futures[1] = futures[2] /\ futures[2].st = "done"
    /\ futures[2].msg.call = 1


\* a handler that can be invoked stands after position <<a, b>> of snap
LaterInvocable(snap, a, b) ==
    \E i \in 1..Len(snap) : \E j \in 1..Len(snap[i].handlers) :
        PosBefore(a, b, i, j) /\ HandlerKind(snap[i].handlers[j]) # "other"

\* C40: in the step in which the callback of the matched handler raises an
\* Exception the pass of its update ends: no filter and no callback of a
\* later handler is awaited for that update and its list of invoked
\* callbacks stays as it is; in the step in which a filter raises, the
\* callback of its handler is not invoked and the pass goes on, for the same
\* update, with the next handler of the snapshot that can be invoked.
C40_CallbackErrorIsMatch ==
    [][ /\ (wpc = "callback" /\ outcome' = "error") =>
              /\ ~(cur' = cur /\ wpc' \in {"filter", "callback"})
              /\ \A k \in 1..Len(calls') :
                    calls'[k].update = cur => calls' = calls
        /\ (wpc = "filter" /\ outcome' = "raise") =>
              /\ ~(wpc' = "callback" /\ cur' = cur /\ <<gi', hi'>> = <<gi, hi>>)
              /\ LaterInvocable(snapshot, gi, hi) =>
                    /\ cur' = cur /\ snapshot' = snapshot
                    /\ wpc' \in {"filter", "callback"}
                    /\ PosBefore(gi, hi, gi', hi')
                    /\ NoneBetween(snapshot, gi, hi, gi', hi')
      ]_vars

\* the callback of a handler of group 0 raised an Exception and the pass
\* ended with that one callback invoked, while a Raw handler, which takes
\* every update, stands later in the snapshot, in group 0 or in group 1
C40_Witness ==
    /\ outcome = "error" /\ wpc = "get"
    /\ Len(calls) = 1 /\ calls[1].update = cur
    /\ \E b \in 1..Len(snapshot[1].handlers) :
          /\ snapshot[1].handlers[b] = calls[1].handler
          /\ \E i \in 1..Len(snapshot) : \E j \in 1..Len(snapshot[i].handlers) :
                /\ PosBefore(1, b, i, j)
                /\ HandlerKind(snapshot[i].handlers[j]) = "raw"

====
